---- MODULE Spec2Model ----
(***************************************************************************)
(* A model of QSPIFBlockDevice.cpp: the QSPI NOR-flash block device of     *)
(* mbed-os (components/storage/blockdevice/COMPONENT_QSPIF).               *)
(*                                                                         *)
(* The driver instance under study is the record dev; threads call its     *)
(* public operations (init, deinit, read, program, erase), which run as    *)
(* sequences of steps between _mutex.lock() and _mutex.unlock().  Every    *)
(* step is one helper call of the source, evaluated as an operator over a  *)
(* "world" record (driver fields, transport format, flash chip), so that   *)
(* a step contains every transport transaction the helper makes.           *)
(*                                                                         *)
(* The QSPI transport object and the flash chip behind it are not part of  *)
(* the file: they are modelled from the specification (sticky              *)
(* configure_format, one call per bus transaction, WREN/WEL/WIP).          *)
(***************************************************************************)
EXTENDS Integers, Sequences, FiniteSets, TLC

(***************************************************************************)
(* Program constants (decimal; the source writes most of them in hex).     *)
(***************************************************************************)
QSPIF_DEFAULT_PAGE_SIZE == 256
QSPIF_STATUS_BIT_WIP == 1
QSPIF_STATUS_BIT_WEL == 2
QSPIF_RSFDP_DUMMY_CYCLES == 8
QSPIF_SFDP_HEADER_SIZE == 8
QSPIF_PARAM_HEADER_SIZE == 8
SFDP_DEFAULT_BASIC_PARAMS_TABLE_SIZE_BYTES == 64
QSPIF_BASIC_PARAM_TABLE_FAST_READ_SUPPORT_BYTE == 2
QSPIF_BASIC_PARAM_TABLE_QPI_READ_SUPPORT_BYTE == 16
QSPIF_BASIC_PARAM_TABLE_444_READ_INST_BYTE == 27
QSPIF_BASIC_PARAM_TABLE_144_READ_INST_BYTE == 9
QSPIF_BASIC_PARAM_TABLE_114_READ_INST_BYTE == 11
QSPIF_BASIC_PARAM_TABLE_222_READ_INST_BYTE == 23
QSPIF_BASIC_PARAM_TABLE_122_READ_INST_BYTE == 15
QSPIF_BASIC_PARAM_TABLE_112_READ_INST_BYTE == 13
QSPIF_BASIC_PARAM_TABLE_PAGE_SIZE_BYTE == 40
QSPIF_BASIC_PARAM_TABLE_QER_BYTE == 58
QSPIF_BASIC_PARAM_TABLE_444_MODE_EN_SEQ_BYTE == 56
QSPIF_BASIC_PARAM_ERASE_TYPE_1_BYTE == 29
QSPIF_BASIC_PARAM_ERASE_TYPE_1_SIZE_BYTE == 28
QSPIF_BASIC_PARAM_4K_ERASE_TYPE_BYTE == 1
QSPIF_BASIC_PARAM_TABLE_SOFT_RESET_BYTE == 61
QSPIF_BASIC_PARAM_TABLE_4BYTE_ADDR_BYTE == 63
SOFT_RESET_RESET_INST_BITMASK == 8
SOFT_RESET_ENABLE_AND_RESET_INST_BITMASK == 16
ERASE_BITMASK_TYPE4 == 8
ERASE_BITMASK_TYPE1 == 1
ERASE_BITMASK_NONE == 0
ERASE_BITMASK_ALL == 15
FOURBYTE_ADDR_B7_BITMASK == 1
FOURBYTE_ADDR_B7_WREN_BITMASK == 2
FOURBYTE_ADDR_EXT_ADDR_REG_BITMASK == 4
FOURBYTE_ADDR_BANK_REG_BITMASK == 8
FOURBYTE_ADDR_CONF_REG_BITMASK == 16
FOURBYTE_ADDR_ALWAYS_BITMASK == 64
IS_MEM_READY_MAX_RETRIES == 10000
QSPIF_PP == 2
QSPIF_READ == 3
QSPIF_SE == 32
QSPIF_WRDI == 4
QSPIF_WREN == 6
QSPIF_INST_WSR1 == 1
QSPIF_INST_RSR1 == 5
QSPIF_INST_RSFDP == 90
QSPIF_INST_RDID == 159
QSPIF_INST_ULBPR == 152
QSPIF_INST_RSR2_DEFAULT == 53
QSPI_RDID_DATA_LENGTH == 3

\* Values of the headers the file includes (QSPIFBlockDevice.h, qspi_api.h,
\* PinNames.h); the file uses them by name only.
QSPI_NO_INST == -1
QSPI_NO_ADDRESS_COMMAND == -1
QSPI_STATUS_OK == "QSPI_STATUS_OK"
QSPI_STATUS_ERROR == "QSPI_STATUS_ERROR"
QSPI_CFG_BUS_SINGLE == 1
QSPI_CFG_BUS_DUAL == 2
QSPI_CFG_BUS_QUAD == 4
QSPI_CFG_ADDR_SIZE_24 == 24
QSPI_CFG_ADDR_SIZE_32 == 32
QSPIF_BD_ERROR_OK == "QSPIF_BD_ERROR_OK"
QSPIF_BD_ERROR_DEVICE_ERROR == "QSPIF_BD_ERROR_DEVICE_ERROR"
QSPIF_BD_ERROR_PARSING_FAILED == "QSPIF_BD_ERROR_PARSING_FAILED"
QSPIF_BD_ERROR_READY_FAILED == "QSPIF_BD_ERROR_READY_FAILED"
QSPIF_BD_ERROR_WREN_FAILED == "QSPIF_BD_ERROR_WREN_FAILED"
QSPIF_BD_ERROR_INVALID_ERASE_PARAMS == "QSPIF_BD_ERROR_INVALID_ERASE_PARAMS"
QSPIF_BD_ERROR_DEVICE_NOT_UNIQE == "QSPIF_BD_ERROR_DEVICE_NOT_UNIQE"
QSPIF_BD_ERROR_DEVICE_MAX_EXCEED == "QSPIF_BD_ERROR_DEVICE_MAX_EXCEED"
\* PinName NC: the "not connected" pin that marks a free registry slot.
NC == 0

(***************************************************************************)
(* Bounds of the model.                                                    *)
(***************************************************************************)
\* Capacity of the chip-select registry (a compile-time constant of the
\* header, scaled down) and of the region arrays.
QSPIF_MAX_ACTIVE_FLASH_DEVICES == 2
QSPIF_MAX_REGIONS == 4
\* init is not called again by the environment once this many are outstanding.
MaxInitRef == 2
\* Driver instances constructed before, and after, the one under study.
MaxBefore == 2
MaxOthers == 1
\* The transport calls of an operation, and of init, among which one may fail;
\* the busy waits of an operation among which one may never see the chip ready.
MaxFail == 4
MaxFailInit == 36
\* The transport calls of init up to the wait after the soft reset.
MaxFailBoot == 9
MaxNrdy == 2

(***************************************************************************)
(* Bit arithmetic on naturals.                                             *)
(***************************************************************************)
Pow2(n) == 2 ^ n
BitIsSet(x, mask) == (x \div mask) % 2 = 1
ClearBit(x, mask) == IF BitIsSet(x, mask) THEN x - mask ELSE x
SetBit(x, mask) == IF BitIsSet(x, mask) THEN x ELSE x + mask
RECURSIVE BitAnd(_, _)
BitAnd(a, b) ==
    IF a = 0 \/ b = 0 THEN 0
    ELSE (IF a % 2 = 1 /\ b % 2 = 1 THEN 1 ELSE 0) + 2 * BitAnd(a \div 2, b \div 2)
RECURSIVE BitOr(_, _)
BitOr(a, b) ==
    IF a = 0 THEN b
    ELSE IF b = 0 THEN a
    ELSE (IF a % 2 = 1 \/ b % 2 = 1 THEN 1 ELSE 0) + 2 * BitOr(a \div 2, b \div 2)

\* local_math_power: integer base^exp by repeated multiplication.
RECURSIVE local_math_power(_, _)
local_math_power(base, exp) ==
    IF exp = 0 THEN 1 ELSE base * local_math_power(base, exp - 1)

(***************************************************************************)
(* The flash parts the transport may be wired to.  Each part is a canned   *)
(* discovery (SFDP) address space plus the physical behaviour the tables   *)
(* describe.  Part "A": 16 MiB, 3-byte addresses.  Part "B": 32 MiB,       *)
(* 4-byte addressing entered with B7h.  Part "C": 32 MiB, always 4-byte,   *)
(* two erase regions announced by a Sector Map whose header the driver     *)
(* recognises.  Part "D": 32 MiB behind an extended-address register.      *)
(* Part "E": 32 MiB with no way into 4-byte addressing that the driver     *)
(* knows, a 16 MiB region of 4 KiB sectors and a 16 MiB region of 64 KiB   *)
(* sectors.  Part "F": as part "C", but its Sector Map announces 16 MiB   *)
(* and 8 MiB regions, less than the 32 MiB of its Basic Parameters table.  *)
(***************************************************************************)
Parts == {"A", "B", "C", "D", "E", "F"}

Idx0(seq, i) == seq[i + 1]

BasicOverrides(part) ==
    (1 :> 32) @@ (2 :> 64) @@ (10 :> 8) @@ (11 :> 107)
    @@ (4 :> 255) @@ (5 :> 255) @@ (6 :> 255) @@ (7 :> (IF part = "A" THEN 7 ELSE 15))
    @@ (28 :> 12) @@ (29 :> 32) @@ (30 :> 15) @@ (31 :> 82)
    @@ (32 :> 16) @@ (33 :> 216) @@ (34 :> 0) @@ (35 :> 255)
    @@ (40 :> 128) @@ (58 :> 16) @@ (61 :> 16)
    @@ (63 :> (CASE part \in {"A", "E"} -> 0 [] part = "B" -> 1 [] part \in {"C", "F"} -> 64
                     [] OTHER -> 4))

\* The Basic Parameters table of a part, bytes 0..63.
BasicTable(part) ==
    [i \in 0..63 |-> IF i \in DOMAIN BasicOverrides(part) THEN BasicOverrides(part)[i] ELSE 0]

\* The Sector Map table of a part: one map descriptor, two regions, of
\* 16 MiB each but for region 1 of part "F" (8 MiB).  Parts "C" and "F":
\* region 0 with erase types 1 and 3, region 1 with types 1, 2, 3.  Part "E":
\* region 0 with erase type 1, region 1 with type 3.
SectorMapTable(part) ==
    [i \in 0..63 |->
        CASE i = 0 -> 3 [] i = 2 -> 1
          [] i = 4 -> (IF part = "E" THEN 1 ELSE 5) [] i = 5 -> 255 [] i = 6 -> 255
          [] i = 8 -> (IF part = "E" THEN 4 ELSE 7) [] i = 9 -> 255 [] i = 10 -> (IF part = "F" THEN 127 ELSE 255)
          [] OTHER -> 0]

SfdpHeader(part) == <<83, 70, 68, 80, 6, 1, (IF part \in {"C", "E", "F"} THEN 1 ELSE 0), 255>>
BasicParamHeader == <<0, 6, 1, 16, 48, 0, 0, 255>>
SectorParamHeader == <<81, 0, 1, 3, 128, 0, 0, 255>>

\* What the part answers to a Read SFDP of len bytes at addr: bytes 0..len-1.
SfdpData(part, addr, len) ==
    [i \in 0..(len - 1) |->
        CASE addr = 0 -> Idx0(SfdpHeader(part), i % 8)
          [] addr = 8 -> Idx0(BasicParamHeader, i % 8)
          [] addr = 16 /\ part \in {"C", "E", "F"} -> Idx0(SectorParamHeader, i % 8)
          [] addr = 48 -> BasicTable(part)[i % 64]
          [] addr = 128 /\ part \in {"C", "E", "F"} -> SectorMapTable(part)[i % 64]
          [] OTHER -> 255]

PartPageSize(part) == 256
PartJedecId(part) == <<194, 32, 25>>

\* A chip is a part with some bytes of its discovery address space and its
\* JEDEC manufacturer byte programmed differently: tweak.sfdp maps discovery
\* addresses to the bytes found there, tweak.mfr is the manufacturer byte,
\* tweak.quick tells whether a status-register write takes no time (the
\* registers are volatile) or leaves the chip busy.
NoTweak == [sfdp |-> <<>>, mfr |-> 194, quick |-> FALSE]
ChipSfdpData(chip, addr, len) ==
    [i \in 0..(len - 1) |->
        IF (addr + i) \in DOMAIN chip.tweak.sfdp THEN chip.tweak.sfdp[addr + i]
        ELSE SfdpData(chip.part, addr, len)[i]]
ChipJedecId(chip) == [PartJedecId(chip.part) EXCEPT ![1] = chip.tweak.mfr]
\* Address bytes the part expects after power-up or soft reset.
PartResetAddrBytes(part) == IF part \in {"C", "F"} THEN 4 ELSE 3
\* Granularity of an erase instruction at an address of the part, 0 when the
\* part does not execute that instruction there.
PartEraseSize(part, inst, addr) ==
    CASE inst = 32 -> IF part = "E" /\ addr >= 16777216 THEN 0 ELSE 4096
      [] inst = 82 -> IF part = "E" \/ (part \in {"C", "F"} /\ addr < 16777216) THEN 0 ELSE 32768
      [] inst = 216 -> IF part = "E" /\ addr < 16777216 THEN 0 ELSE 65536
      [] OTHER -> 0

(***************************************************************************)
(* Memory is observed at a few probe addresses: both sides of a page       *)
(* boundary, inside the first 4 KiB block, and the first byte above 16 MiB.*)
(***************************************************************************)
Probes == {496, 512, 16777216}
\* get_erase_value(): what an erased byte reads as.
get_erase_value == 255
\* Byte i of caller buffer number pat.
BufByte(pat, i) ==
    IF (i \div 16) % 2 = 0 THEN (IF pat = 1 THEN 165 ELSE 90)
    ELSE (IF pat = 1 THEN 90 ELSE 165)

(***************************************************************************)
(* The flash chip.  sr1 holds status register 1 without its WIP and WEL    *)
(* bits, which are wip and wel; addr_bytes is the number of address bytes  *)
(* the chip expects; ext is its extended-address register, conf and bank   *)
(* its configuration and bank registers (B5h/B1h, 17h); mem its contents   *)
(* at the probes.                                                          *)
(***************************************************************************)
ChipStatus1(chip) ==
    chip.sr1 + (IF chip.wel THEN QSPIF_STATUS_BIT_WEL ELSE 0)
             + (IF chip.wip THEN QSPIF_STATUS_BIT_WIP ELSE 0)

ChipProtected(chip) == (chip.sr1 \div 4) % 8 # 0

\* The address the chip acts on when it is sent the address a.
ChipAddr(chip, a) ==
    IF chip.addr_bytes = 3 THEN chip.ext * 16777216 + (a % 16777216) ELSE a

\* Page program of n bytes (bytes off.. of buffer pat) at ea: the bytes wrap
\* inside the page of ea, a later byte overwriting an earlier one.
ChipProgram(chip, ea, pat, off, n) ==
    LET page == PartPageSize(chip.part)
        base == ea - (ea % page)
        hit(p) == p >= base /\ p < base + page /\ ((p - ea) % page) < n
        last(p) == LET d == (p - ea) % page IN d + page * ((n - 1 - d) \div page)
    IN [chip EXCEPT !.mem = [p \in Probes |->
                                IF hit(p) THEN BufByte(pat, off + last(p)) ELSE chip.mem[p]],
                    !.wel = FALSE, !.wip = TRUE]

\* Erase of the block of granularity size that contains ea.
ChipErase(chip, ea, size) ==
    LET base == ea - (ea % size)
    IN [chip EXCEPT !.mem = [p \in Probes |->
                                IF p >= base /\ p < base + size THEN get_erase_value
                                ELSE chip.mem[p]],
                    !.wel = FALSE, !.wip = TRUE]

\* The read modes a chip executes: instruction, address lines, data lines,
\* dummy and mode cycles (1-1-1, 1-1-4, 1-1-2, 1-2-2, 2-2-2, 1-4-4, 4-4-4).
ChipReadModes == {<<3, 1, 1, 0>>, <<107, 1, 4, 8>>, <<59, 1, 2, 8>>, <<187, 2, 2, 4>>,
                  <<187, 2, 2, 5>>, <<235, 4, 4, 6>>, <<235, 4, 4, 2>>}
EraseInsts == {32, 82, 216}

\* One bus transaction as the chip sees it: instruction inst, address a (or
\* QSPI_NO_ADDRESS_COMMAND), data tx (a sequence of bytes, or <<pat, off>> for
\* a page program), n data bytes, fmt the transport format in force.  A
\* program or erase whose address is sent with another number of bytes than
\* the chip expects changes none of the probed bytes; a read in a mode the
\* chip is not in returns the junk byte 0.  The result is the chip
\* afterwards and the bytes received (memory reads: the value at each probe
\* inside the range, -1 elsewhere).
ChipExec(chip, inst, a, tx, n, fmt) ==
    LET framed == fmt.address_size = 8 * chip.addr_bytes
        ea == ChipAddr(chip, IF fmt.address_size = QSPI_CFG_ADDR_SIZE_24 THEN a % 16777216 ELSE a)
        canWrite == chip.wel /\ ~chip.wip
        lost == [chip EXCEPT !.wel = FALSE, !.wip = TRUE]
        quadOk == fmt.data_width # QSPI_CFG_BUS_QUAD \/ BitIsSet(chip.sr2, 2)
        same == [chip |-> chip, rx |-> 0]
    IN CASE inst = QSPIF_INST_RSR1 -> [chip |-> chip, rx |-> ChipStatus1(chip)]
         [] inst \in {53, 63} -> [chip |-> chip, rx |-> chip.sr2]
         [] inst = QSPIF_INST_RDID -> [chip |-> chip, rx |-> ChipJedecId(chip)]
         [] inst = QSPIF_INST_RSFDP -> [chip |-> chip, rx |-> ChipSfdpData(chip, a, n)]
         [] inst = QSPIF_WREN ->
                [chip |-> IF chip.wip THEN chip ELSE [chip EXCEPT !.wel = TRUE], rx |-> 0]
         [] inst = QSPIF_WRDI -> [chip |-> [chip EXCEPT !.wel = FALSE], rx |-> 0]
         [] inst = QSPIF_INST_WSR1 ->
                IF ~canWrite THEN same
                ELSE [chip |-> [chip EXCEPT !.sr1 = tx[1] - (tx[1] % 4),
                                            !.sr2 = IF n >= 2 THEN tx[2] ELSE chip.sr2,
                                            !.wel = FALSE, !.wip = ~chip.tweak.quick],
                      rx |-> 0]
         [] inst = 62 ->
                IF ~canWrite THEN same
                ELSE [chip |-> [chip EXCEPT !.sr2 = tx[1], !.wel = FALSE,
                                            !.wip = ~chip.tweak.quick],
                      rx |-> 0]
         [] inst \in {153, 240} ->
                [chip |-> [chip EXCEPT !.wel = FALSE, !.wip = TRUE, !.ext = 0,
                                       !.conf = 0, !.bank = 0,
                                       !.addr_bytes = PartResetAddrBytes(chip.part)],
                 rx |-> 0]
         [] inst = 181 -> [chip |-> chip, rx |-> chip.conf]
         [] inst = 177 ->
                IF canWrite THEN [chip |-> [chip EXCEPT !.conf = tx[1], !.wel = FALSE], rx |-> 0]
                ELSE same
         [] inst = 23 -> [chip |-> IF chip.wip THEN chip ELSE [chip EXCEPT !.bank = tx[1]], rx |-> 0]
         [] inst = 183 ->
                [chip |-> IF chip.part = "B" /\ ~chip.wip
                          THEN [chip EXCEPT !.addr_bytes = 4] ELSE chip,
                 rx |-> 0]
         [] inst = 197 ->
                IF canWrite /\ chip.part = "D"
                THEN [chip |-> [chip EXCEPT !.ext = tx[1], !.wel = FALSE], rx |-> 0]
                ELSE same
         [] inst = QSPIF_PP ->
                IF ~canWrite \/ ChipProtected(chip) THEN same
                ELSE IF ~framed THEN [chip |-> lost, rx |-> 0]
                ELSE [chip |-> ChipProgram(chip, ea, tx[1], tx[2], n), rx |-> 0]
         [] inst \in EraseInsts ->
                IF ~canWrite \/ ChipProtected(chip) THEN same
                ELSE IF ~framed THEN same
                ELSE IF PartEraseSize(chip.part, inst, ea) = 0 THEN same
                ELSE [chip |-> ChipErase(chip, ea, PartEraseSize(chip.part, inst, ea)), rx |-> 0]
         [] <<inst, fmt.address_width, fmt.data_width, fmt.dummy>> \in
                {<<m[1], m[2], m[3], m[4]>> : m \in ChipReadModes} ->
                [chip |-> chip,
                 rx |-> [p \in Probes |->
                            IF p >= ea /\ p < ea + n
                            THEN (IF framed /\ quadOk /\ fmt.inst_width = QSPI_CFG_BUS_SINGLE
                                  THEN chip.mem[p] ELSE 0)
                            ELSE -1]]
         [] OTHER -> same

(***************************************************************************)
(* The transport (mbed::QSPI).  Its format is sticky: configure_format     *)
(* stores it and every later transaction is framed with it.  A world w is  *)
(* the driver fields dev, the transport format qspi, the chip, the bus     *)
(* transactions made so far in the current step, and what the environment  *)
(* has in store: fail counts down the transport calls to the one that      *)
(* fails (0: none), nrdy counts down the busy waits to the one that never  *)
(* sees the chip ready (0: none), hang tells whether that wait spins for   *)
(* ever or returns false after its counter wrapped.  hung is set once the  *)
(* call can no longer return.                                              *)
(***************************************************************************)
Countdown(k) == IF k > 0 THEN k - 1 ELSE 0

\* What a call hands back: the world afterwards, whether it succeeded, and
\* the data it produced.
Done(w, ok, rx) == [w |-> w, ok |-> ok, rx |-> rx]
Failed(r) == [w |-> r.w, ok |-> FALSE, rx |-> r.rx]

configure_format(w, inst_width, address_width, address_size, data_width, dummy) ==
    [w EXCEPT !.qspi = [inst_width |-> inst_width, address_width |-> address_width,
                        address_size |-> address_size, data_width |-> data_width,
                        dummy |-> dummy]]

BusEntry(w, inst, a, tx, rx, n, ok) ==
    [op |-> w.op, inst |-> inst, addr |-> a, tx |-> tx, rx |-> rx, len |-> n, ok |-> ok,
     fmt |-> w.qspi]

\* The transport carried the call out: e is what the chip made of it.
Carried(w, inst, a, tx, n, e) ==
    Done([w EXCEPT !.chip = e.chip, !.fail = Countdown(w.fail),
                   !.bus = Append(w.bus, BusEntry(w, inst, a, tx, e.rx, n, TRUE))],
         TRUE, e.rx)

\* One transport call: command_transfer, read or write.
Transaction(w, inst, a, tx, n) ==
    IF w.hung THEN Done(w, FALSE, 0)
    ELSE IF w.fail = 1
    THEN Done([w EXCEPT !.fail = 0,
                        !.bus = Append(w.bus, BusEntry(w, inst, a, tx, 0, n, FALSE))],
              FALSE, 0)
    ELSE Carried(w, inst, a, tx, n, ChipExec(w.chip, inst, a, tx, n, w.qspi))

\* _qspi.set_frequency: a transport call that puts nothing on the bus.
_qspi_set_frequency(w) ==
    IF w.fail = 1 THEN Done([w EXCEPT !.fail = 0], FALSE, 0)
    ELSE Done([w EXCEPT !.fail = Countdown(w.fail)], TRUE, 0)

(***************************************************************************)
(* QSPI Driver API functions of the driver.  A function that goes on after *)
(* a call only if the call succeeded is written as the call wrapped in the *)
(* rest of the function (Then...).                                         *)
(***************************************************************************)
\* In extended-address-register mode the function calls _set_write_enable,
\* whose first statement is _qspi_send_general_command, whose first
\* statement is this function again, with no change of state in between:
\* the call never returns.
NoAddressCheck(w, addr) == Done(w, TRUE, 0)
_qspi_update_4byte_ext_addr_reg(w, addr) ==
    IF w.dev._4byte_msb_reg_write_inst # QSPI_NO_INST
    THEN Done([w EXCEPT !.hung = TRUE], FALSE, 0)
    ELSE IF w.dev._address_size # QSPI_CFG_ADDR_SIZE_32
            /\ addr # QSPI_NO_ADDRESS_COMMAND /\ addr >= 16777216
    THEN Done(w, FALSE, 0)
    ELSE Done(w, TRUE, 0)

ThenTransaction(u, inst, a, tx, n) ==
    IF u.ok THEN Transaction(u.w, inst, a, tx, n) ELSE Failed(u)

_qspi_send_general_command(w, instruction, addr, tx, tx_length, rx_length) ==
    ThenTransaction(_qspi_update_4byte_ext_addr_reg(w, addr), instruction, addr, tx,
                    IF tx_length > 0 THEN tx_length ELSE rx_length)

RestoreFormat(w) ==
    configure_format(w, QSPI_CFG_BUS_SINGLE, QSPI_CFG_BUS_SINGLE, w.dev._address_size,
                     QSPI_CFG_BUS_SINGLE, 0)
NotRestored(r) == r
Restored(r) == Done(RestoreFormat(r.w), r.ok, r.rx)

ReadFormat(w) ==
    configure_format(w, w.dev._inst_width, w.dev._address_width, w.dev._address_size,
                     w.dev._data_width, w.dev._dummy_and_mode_cycles)
ThenRead(u, read_inst, addr, size) ==
    IF u.ok THEN Restored(Transaction(ReadFormat(u.w), read_inst, addr, <<>>, size))
    ELSE Failed(u)

_qspi_send_read_command(w, read_inst, addr, size) ==
    ThenRead(_qspi_update_4byte_ext_addr_reg(w, addr), read_inst, addr, size)

\* buffer is <<pat, off>>: the bytes of caller buffer pat from offset off on.
_qspi_send_program_command(w, prog_inst, buffer, addr, size) ==
    ThenTransaction(_qspi_update_4byte_ext_addr_reg(w, addr), prog_inst, addr, buffer, size)

\* ((int) addr) & 0x00FFF000: bits 12..23 of the address.
EraseAddrMask(addr) == ((addr \div 4096) % 4096) * 4096

_qspi_send_erase_command(w, erase_inst, addr, size) ==
    ThenTransaction(_qspi_update_4byte_ext_addr_reg(w, addr), erase_inst,
                    EraseAddrMask(addr), <<>>, 0)

SfdpFormat(w) ==
    configure_format(w, QSPI_CFG_BUS_SINGLE, QSPI_CFG_BUS_SINGLE, QSPI_CFG_ADDR_SIZE_24,
                     QSPI_CFG_BUS_SINGLE, QSPIF_RSFDP_DUMMY_CYCLES)

_qspi_send_read_sfdp_command(w, addr, rx_length) ==
    Restored(Transaction(SfdpFormat(w), QSPIF_INST_RSFDP, addr, <<>>, rx_length))

NoTx == <<>>
ThenCommand(r, inst, tx, tx_length, rx_length) ==
    IF r.ok
    THEN _qspi_send_general_command(r.w, inst, QSPI_NO_ADDRESS_COMMAND, tx, tx_length, rx_length)
    ELSE Failed(r)

\* One status poll of _is_mem_ready, rx the status value: the buffer is
\* preset to 0xFF and a failed transport call is only logged.
Polled(r) == Done(r.w, TRUE, IF r.ok THEN r.rx ELSE 255)
PollStatus(w) ==
    Polled(_qspi_send_general_command(w, QSPIF_INST_RSR1, QSPI_NO_ADDRESS_COMMAND, NoTx, 0, 1))
Busy(p) == BitIsSet(p.rx, QSPIF_STATUS_BIT_WIP)
\* The chip completes the operation it was busy with.
ChipFinishes(w) == [w EXCEPT !.chip.wip = FALSE, !.nrdy = Countdown(w.nrdy)]

\* _is_mem_ready: poll until WIP reads clear.  The retry counter moves away
\* from IS_MEM_READY_MAX_RETRIES, so the cap ends the loop only once the
\* counter has wrapped around (undefined for a signed int): a chip that stays
\* busy makes the call spin for ever (hang) or return false.  A chip that was
\* busy finishes its operation between two polls unless the environment has
\* this wait down as the one that never sees it ready.
AfterLaterPoll(p) == IF Busy(p) THEN Done(PollStatus(p.w).w, TRUE, 0) ELSE Done(p.w, TRUE, 0)
AfterFirstPoll(p) ==
    IF p.w.hung THEN Done(p.w, FALSE, 0)
    ELSE IF ~Busy(p) THEN Done(p.w, TRUE, 0)
    ELSE IF p.w.nrdy = 1
    THEN (IF p.w.hang THEN Done([p.w EXCEPT !.hung = TRUE], FALSE, 0)
          ELSE Done([p.w EXCEPT !.nrdy = 0], FALSE, 0))
    ELSE AfterLaterPoll(PollStatus(ChipFinishes(p.w)))
_is_mem_ready(w) == AfterFirstPoll(PollStatus(w))
ThenReady(r) == IF r.ok THEN _is_mem_ready(r.w) ELSE Failed(r)

WelUnchecked(r) == Done(r.w, r.ok, 0)
\* _set_write_enable: ok stands for the return value 0.
WelIsSet(r) == Done(r.w, r.ok /\ BitIsSet(r.rx, QSPIF_STATUS_BIT_WEL), 0)
_set_write_enable(w) ==
    WelIsSet(ThenCommand(ThenReady(_qspi_send_general_command(w, QSPIF_WREN,
                                                              QSPI_NO_ADDRESS_COMMAND, NoTx, 0, 0)),
                         QSPIF_INST_RSR1, NoTx, 0, 1))

\* reg_buffer comes in as regs (a pair) and goes out as rx; a register that
\* was not read keeps the value the caller put in the buffer.
Register2Read(value1, regs, r2) ==
    Done(r2.w, r2.ok, <<value1, IF r2.ok THEN r2.rx ELSE regs[2]>>)
Register1Read(r1, regs, read_status_reg_2_inst) ==
    IF ~r1.ok THEN Done(r1.w, FALSE, regs)
    ELSE Register2Read(r1.rx, regs, ThenCommand(r1, read_status_reg_2_inst, NoTx, 0, 1))
_qspi_read_status_registers(w, regs) ==
    Register1Read(_qspi_send_general_command(w, QSPIF_INST_RSR1, QSPI_NO_ADDRESS_COMMAND,
                                             NoTx, 0, 1),
                  regs, w.dev._read_status_reg_2_inst)

ThenWriteEnable(r) == IF r.ok THEN _set_write_enable(r.w) ELSE Failed(r)
\* With a separate instruction for register 2 the code sends reg_buffer[0]
\* with both instructions.
_qspi_write_status_registers(w, regs) ==
    IF w.dev._write_status_reg_2_inst = QSPI_NO_INST
    THEN ThenCommand(_set_write_enable(w), QSPIF_INST_WSR1, regs, 2, 0)
    ELSE ThenCommand(ThenWriteEnable(ThenCommand(_set_write_enable(w), QSPIF_INST_WSR1,
                                                 <<regs[1]>>, 1, 0)),
                     w.dev._write_status_reg_2_inst, <<regs[1]>>, 1, 0)

\* The default case of _clear_block_protection, after the registers were read.
ClearAllButWipWel(rd) ==
    IF ~rd.ok THEN Failed(rd)
    ELSE _qspi_write_status_registers(
             rd.w, <<BitAnd(rd.rx[1], QSPIF_STATUS_BIT_WIP + QSPIF_STATUS_BIT_WEL), rd.rx[2]>>)
\* The switch on the manufacturer id.
Unprotect(id) ==
    IF ~id.ok THEN Failed(id)
    ELSE IF id.rx[1] = 191
    THEN ThenCommand(_set_write_enable(id.w), QSPIF_INST_ULBPR, NoTx, 0, 0)
    ELSE ClearAllButWipWel(_qspi_read_status_registers(id.w, <<0, 0>>))
_clear_block_protection(w) ==
    ThenReady(Unprotect(ThenCommand(_is_mem_ready(w), QSPIF_INST_RDID, NoTx, 0,
                                    QSPI_RDID_DATA_LENGTH)))

(***************************************************************************)
(* SFDP parsing and detection functions.                                   *)
(***************************************************************************)
\* The four out-parameters of _sfdp_parse_sfdp_headers before any header.
NoTables == [basic_table_addr |-> 0, basic_table_size |-> 0,
             sector_map_table_addr |-> 0, sector_map_table_size |-> 0]

\* What one parameter header adds to the table addresses and sizes found.
NoteTable(acc, param_header) ==
    LET table_addr == param_header[6] * 65536 + param_header[5] * 256 + param_header[4]
    IN IF param_header[0] = 0 /\ param_header[7] = 255
       THEN [acc EXCEPT !.basic_table_addr = table_addr,
                        !.basic_table_size =
                            IF param_header[3] * 4 < SFDP_DEFAULT_BASIC_PARAMS_TABLE_SIZE_BYTES
                            THEN param_header[3] * 4
                            ELSE SFDP_DEFAULT_BASIC_PARAMS_TABLE_SIZE_BYTES]
       ELSE IF param_header[0] = 81 /\ param_header[7] = 255
       THEN [acc EXCEPT !.sector_map_table_addr = table_addr,
                        !.sector_map_table_size = param_header[3] * 4]
       ELSE acc

\* The loop over the parameter headers i_ind.. of _sfdp_parse_sfdp_headers;
\* ParamHeaderRead is its body once the header has been read.
RECURSIVE ParseParamHeaders(_, _, _, _, _)
RECURSIVE ParamHeaderRead(_, _, _, _, _)
ParseParamHeaders(w, addr, i_ind, number_of_param_headers, acc) ==
    IF i_ind >= number_of_param_headers THEN Done(w, TRUE, acc)
    ELSE ParamHeaderRead(_qspi_send_read_sfdp_command(w, addr, QSPIF_PARAM_HEADER_SIZE),
                         addr, i_ind, number_of_param_headers, acc)
ParamHeaderRead(r, addr, i_ind, number_of_param_headers, acc) ==
    IF ~r.ok THEN Done(r.w, FALSE, acc)
    ELSE IF r.rx[2] # 1 THEN Done(r.w, FALSE, acc)
    ELSE ParseParamHeaders(r.w, addr + QSPIF_PARAM_HEADER_SIZE, i_ind + 1,
                           number_of_param_headers, NoteTable(acc, r.rx))

HeaderUnchecked(r) ==
    IF ~r.ok THEN Done(r.w, FALSE, NoTables)
    ELSE ParseParamHeaders(r.w, QSPIF_SFDP_HEADER_SIZE, 0, r.rx[6] + 1, NoTables)
SfdpHeaderRead(r) ==
    IF ~r.ok THEN Done(r.w, FALSE, NoTables)
    ELSE IF ~(<<r.rx[0], r.rx[1], r.rx[2], r.rx[3]>> = <<83, 70, 68, 80>> /\ r.rx[5] = 1)
    THEN Done(r.w, FALSE, NoTables)
    ELSE ParseParamHeaders(r.w, QSPIF_SFDP_HEADER_SIZE, 0, r.rx[6] + 1, NoTables)
\* rx holds the four out-parameters.
_sfdp_parse_sfdp_headers(w) ==
    SfdpHeaderRead(_qspi_send_read_sfdp_command(w, 0, QSPIF_SFDP_HEADER_SIZE))

_sfdp_detect_page_size(basic_param_table_ptr, basic_param_table_size) ==
    IF basic_param_table_size > QSPIF_BASIC_PARAM_TABLE_PAGE_SIZE_BYTE
    THEN local_math_power(2, basic_param_table_ptr[QSPIF_BASIC_PARAM_TABLE_PAGE_SIZE_BYTE] \div 16)
    ELSE QSPIF_DEFAULT_PAGE_SIZE

ResetWhatever(w, basic_param_table_ptr) ==
    ThenReady(_qspi_send_general_command(
                  _qspi_send_general_command(w, 102, QSPI_NO_ADDRESS_COMMAND, NoTx, 0, 0).w,
                  153, QSPI_NO_ADDRESS_COMMAND, NoTx, 0, 0))
_sfdp_detect_reset_protocol_and_reset(w, basic_param_table_ptr) ==
    ThenReady(IF BitIsSet(basic_param_table_ptr[QSPIF_BASIC_PARAM_TABLE_SOFT_RESET_BYTE],
                          SOFT_RESET_RESET_INST_BITMASK)
              THEN _qspi_send_general_command(w, 240, QSPI_NO_ADDRESS_COMMAND, NoTx, 0, 0)
              ELSE IF BitIsSet(basic_param_table_ptr[QSPIF_BASIC_PARAM_TABLE_SOFT_RESET_BYTE],
                               SOFT_RESET_ENABLE_AND_RESET_INST_BITMASK)
              THEN ThenCommand(_qspi_send_general_command(w, 102, QSPI_NO_ADDRESS_COMMAND,
                                                          NoTx, 0, 0),
                               153, NoTx, 0, 0)
              ELSE Done(w, FALSE, 0))

\* The loop over erase types i_ind..3 of _sfdp_detect_erase_types_inst_and_size.
RECURSIVE DetectEraseTypes(_, _, _)
DetectEraseTypes(dev, table, i_ind) ==
    IF i_ind > 3 THEN dev
    ELSE LET size == local_math_power(2, table[QSPIF_BASIC_PARAM_ERASE_TYPE_1_SIZE_BYTE + 2 * i_ind])
             inst == table[QSPIF_BASIC_PARAM_ERASE_TYPE_1_BYTE + 2 * i_ind]
             d1 == [dev EXCEPT !._erase_type_inst_arr[i_ind] = IF size > 1 THEN inst ELSE 255,
                               !._erase_type_size_arr[i_ind] = size]
             d2 == [d1 EXCEPT
                      !._min_common_erase_size =
                          IF size < dev._min_common_erase_size \/ dev._min_common_erase_size = 0
                          THEN size ELSE dev._min_common_erase_size,
                      !._erase4k_inst = IF size = 4096 THEN inst ELSE dev._erase4k_inst,
                      !._region_erase_types_bitfield[0] =
                          SetBit(dev._region_erase_types_bitfield[0], Pow2(i_ind))]
         IN DetectEraseTypes(IF size > 1 THEN d2 ELSE d1, table, i_ind + 1)

_sfdp_detect_erase_types_inst_and_size(dev, table, basic_param_table_size) ==
    LET d0 == [dev EXCEPT !._erase4k_inst = table[QSPIF_BASIC_PARAM_4K_ERASE_TYPE_BYTE]]
    IN IF basic_param_table_size > QSPIF_BASIC_PARAM_ERASE_TYPE_1_SIZE_BYTE
       THEN DetectEraseTypes(d0, table, 0) ELSE d0

DummyCycles(b) == (b \div 32) + (b % 32)

\* The result is the driver fields with the chosen read instruction, widths
\* and dummy cycles, and the two out-flags.
_sfdp_detect_best_bus_read_mode(dev, table, basic_param_table_size) ==
    LET qpi == basic_param_table_size > QSPIF_BASIC_PARAM_TABLE_QPI_READ_SUPPORT_BYTE
               /\ BitIsSet(table[QSPIF_BASIC_PARAM_TABLE_QPI_READ_SUPPORT_BYTE], 16)
        d444 == IF qpi
                THEN [dev EXCEPT !._read_instruction = table[QSPIF_BASIC_PARAM_TABLE_444_READ_INST_BYTE],
                                 !._dummy_and_mode_cycles =
                                     DummyCycles(table[QSPIF_BASIC_PARAM_TABLE_444_READ_INST_BYTE - 1]),
                                 !._address_width = QSPI_CFG_BUS_QUAD,
                                 !._data_width = QSPI_CFG_BUS_QUAD]
                ELSE dev
        fast == table[QSPIF_BASIC_PARAM_TABLE_FAST_READ_SUPPORT_BYTE]
        mode(inst_byte, aw, dw) ==
            [d444 EXCEPT !._read_instruction = table[inst_byte],
                         !._dummy_and_mode_cycles = DummyCycles(table[inst_byte - 1]),
                         !._address_width = aw, !._data_width = dw]
    IN CASE BitIsSet(fast, 32) ->
                [dev |-> mode(QSPIF_BASIC_PARAM_TABLE_144_READ_INST_BYTE, QSPI_CFG_BUS_QUAD, QSPI_CFG_BUS_QUAD),
                 set_quad_enable |-> TRUE, is_qpi_mode |-> FALSE]
         [] ~BitIsSet(fast, 32) /\ BitIsSet(fast, 64) ->
                [dev |-> mode(QSPIF_BASIC_PARAM_TABLE_114_READ_INST_BYTE, d444._address_width, QSPI_CFG_BUS_QUAD),
                 set_quad_enable |-> TRUE, is_qpi_mode |-> FALSE]
         [] ~BitIsSet(fast, 32) /\ ~BitIsSet(fast, 64)
            /\ BitIsSet(table[QSPIF_BASIC_PARAM_TABLE_QPI_READ_SUPPORT_BYTE], 1) ->
                [dev |-> mode(QSPIF_BASIC_PARAM_TABLE_222_READ_INST_BYTE, QSPI_CFG_BUS_DUAL, QSPI_CFG_BUS_DUAL),
                 set_quad_enable |-> qpi, is_qpi_mode |-> FALSE]
         [] ~BitIsSet(fast, 32) /\ ~BitIsSet(fast, 64)
            /\ ~BitIsSet(table[QSPIF_BASIC_PARAM_TABLE_QPI_READ_SUPPORT_BYTE], 1)
            /\ BitIsSet(fast, 16) ->
                [dev |-> mode(QSPIF_BASIC_PARAM_TABLE_122_READ_INST_BYTE, QSPI_CFG_BUS_DUAL, QSPI_CFG_BUS_DUAL),
                 set_quad_enable |-> qpi, is_qpi_mode |-> FALSE]
         [] ~BitIsSet(fast, 32) /\ ~BitIsSet(fast, 64)
            /\ ~BitIsSet(table[QSPIF_BASIC_PARAM_TABLE_QPI_READ_SUPPORT_BYTE], 1)
            /\ ~BitIsSet(fast, 16) /\ BitIsSet(fast, 1) ->
                [dev |-> mode(QSPIF_BASIC_PARAM_TABLE_112_READ_INST_BYTE, d444._address_width, QSPI_CFG_BUS_DUAL),
                 set_quad_enable |-> qpi, is_qpi_mode |-> FALSE]
         [] OTHER -> [dev |-> d444, set_quad_enable |-> qpi, is_qpi_mode |-> FALSE]

QerValue(table) == (table[QSPIF_BASIC_PARAM_TABLE_QER_BYTE] \div 16) % 8
StatusRegSetup(qer_value) ==
    CASE qer_value \in {1, 4, 5} -> <<0, 2>>
      [] qer_value = 2 -> <<64, 0>>
      [] OTHER -> <<128, 0>>
QuadInsts(w, qer_value) ==
    IF qer_value = 3
    THEN [w EXCEPT !.dev._write_status_reg_2_inst = 62, !.dev._read_status_reg_2_inst = 63]
    ELSE w
\* The steps of _sfdp_set_quad_enabled, each on the result of the one before;
\* the results of the two status-register reads and of the write are not
\* looked at by the code.
QuadWrite(rd, setup) ==
    _qspi_write_status_registers(rd.w, <<BitOr(rd.rx[1], setup[1]), BitOr(rd.rx[2], setup[2])>>)
QuadVerify(chk, setup) ==
    Done(chk.w, BitOr(BitAnd(chk.rx[1], setup[1]), BitAnd(chk.rx[2], setup[2])) # 0, 0)
QuadCheck(rdy, setup) ==
    IF ~rdy.ok THEN Failed(rdy)
    ELSE QuadVerify(_qspi_read_status_registers(rdy.w, <<0, 0>>), setup)
_sfdp_set_quad_enabled(w, table) ==
    IF QerValue(table) \in {0, 6, 7} THEN Done(w, TRUE, 0)
    ELSE QuadCheck(_is_mem_ready(QuadWrite(_qspi_read_status_registers(
                                               QuadInsts(w, QerValue(table)), <<0, 0>>),
                                           StatusRegSetup(QerValue(table))).w),
                   StatusRegSetup(QerValue(table)))

\* Always returns 0; the transport results are only logged.  The enable
\* sequence is read from the high nibble of byte 56.
_sfdp_set_qpi_enabled(w, table) ==
    LET en_seq_444_value == table[QSPIF_BASIC_PARAM_TABLE_444_MODE_EN_SEQ_BYTE] \div 16
        c(x, inst, addr) == _qspi_send_general_command(x, inst, addr, NoTx, 0, 0).w
        r(x, inst, addr) == _qspi_send_general_command(x, inst, addr, NoTx, 0, 1).w
    IN CASE en_seq_444_value \in {1, 2} -> c(w, 56, QSPI_NO_ADDRESS_COMMAND)
         [] en_seq_444_value = 4 -> c(w, 53, QSPI_NO_ADDRESS_COMMAND)
         [] en_seq_444_value = 8 -> r(r(w, 101, 8388611), 113, 8388611)
         [] en_seq_444_value = 16 -> r(r(w, 101, QSPI_NO_ADDRESS_COMMAND), 97, QSPI_NO_ADDRESS_COMMAND)
         [] OTHER -> w

SizeKept(r) == Done(r.w, r.ok, 0)
Size32IfOk(r) ==
    Done(IF r.ok THEN [r.w EXCEPT !.dev._address_size = QSPI_CFG_ADDR_SIZE_32] ELSE r.w, r.ok, 0)
\* The configuration-register way in, once the register has been read.
ConfRegRead(b5) ==
    IF ~b5.ok THEN Failed(b5)
    ELSE Size32IfOk(ThenCommand(_set_write_enable(b5.w), 177, <<SetBit(b5.rx, 1)>>, 1, 0))
_sfdp_detect_and_enable_4byte_addressing(w, table, basic_param_table_size) ==
    IF ~(basic_param_table_size > QSPIF_BASIC_PARAM_TABLE_4BYTE_ADDR_BYTE) THEN Done(w, TRUE, 0)
    ELSE IF BitIsSet(table[QSPIF_BASIC_PARAM_TABLE_4BYTE_ADDR_BYTE], FOURBYTE_ADDR_ALWAYS_BITMASK)
    THEN Size32IfOk(Done(w, TRUE, 0))
    ELSE IF BitIsSet(table[QSPIF_BASIC_PARAM_TABLE_4BYTE_ADDR_BYTE], FOURBYTE_ADDR_B7_BITMASK)
    THEN Size32IfOk(ThenCommand(Done(w, TRUE, 0), 183, NoTx, 0, 0))
    ELSE IF BitIsSet(table[QSPIF_BASIC_PARAM_TABLE_4BYTE_ADDR_BYTE], FOURBYTE_ADDR_B7_WREN_BITMASK)
    THEN Size32IfOk(ThenCommand(_set_write_enable(w), 183, NoTx, 0, 0))
    ELSE IF BitIsSet(table[QSPIF_BASIC_PARAM_TABLE_4BYTE_ADDR_BYTE], FOURBYTE_ADDR_CONF_REG_BITMASK)
    THEN ConfRegRead(_qspi_send_general_command(w, 181, QSPI_NO_ADDRESS_COMMAND, NoTx, 0, 1))
    ELSE IF BitIsSet(table[QSPIF_BASIC_PARAM_TABLE_4BYTE_ADDR_BYTE], FOURBYTE_ADDR_BANK_REG_BITMASK)
    THEN Size32IfOk(_qspi_send_general_command(w, 23, QSPI_NO_ADDRESS_COMMAND, <<128>>, 1, 0))
    ELSE IF BitIsSet(table[QSPIF_BASIC_PARAM_TABLE_4BYTE_ADDR_BYTE],
                     FOURBYTE_ADDR_EXT_ADDR_REG_BITMASK)
    THEN Done([w EXCEPT !.dev._address_size = QSPI_CFG_ADDR_SIZE_24,
                        !.dev._4byte_msb_reg_write_inst = 197], TRUE, 0)
    ELSE Done([w EXCEPT !.dev._address_size = QSPI_CFG_ADDR_SIZE_24], TRUE, 0)

\* The steps of _sfdp_parse_basic_param_table, each on the result of the one
\* before.
BasicAddressing(r, param_table, basic_table_size) ==
    ThenReady(_sfdp_detect_and_enable_4byte_addressing(r.w, param_table, basic_table_size))
BasicQuadSet(quad, is_qpi_mode, param_table, basic_table_size) ==
    IF ~quad.ok THEN Failed(quad)
    ELSE IF is_qpi_mode
    THEN BasicAddressing(Done(_sfdp_set_qpi_enabled(quad.w, param_table), TRUE, 0),
                         param_table, basic_table_size)
    ELSE BasicAddressing(quad, param_table, basic_table_size)
BasicModeChosen(w, best, param_table, basic_table_size) ==
    IF best.set_quad_enable
    THEN BasicQuadSet(_sfdp_set_quad_enabled([w EXCEPT !.dev = best.dev], param_table),
                      best.is_qpi_mode, param_table, basic_table_size)
    ELSE BasicAddressing(Done([w EXCEPT !.dev = best.dev], TRUE, 0),
                         param_table, basic_table_size)
EraseTypesDetected(d) == [d EXCEPT !._erase_instruction = d._erase4k_inst]
BasicResetDone(rst, param_table, basic_table_size) ==
    IF ~rst.ok THEN Failed(rst)
    ELSE BasicModeChosen(rst.w,
                         _sfdp_detect_best_bus_read_mode(
                             EraseTypesDetected(_sfdp_detect_erase_types_inst_and_size(
                                                    rst.w.dev, param_table, basic_table_size)),
                             param_table, basic_table_size),
                         param_table, basic_table_size)
BasicDefaults(w, param_table, basic_table_size) ==
    [w EXCEPT !.dev._device_size_bytes =
                  (param_table[7] * 16777216 + param_table[6] * 65536
                   + param_table[5] * 256 + param_table[4] + 1) \div 8,
              !.dev._read_instruction = QSPIF_READ,
              !.dev._prog_instruction = QSPIF_PP,
              !.dev._erase_instruction = w.dev._erase4k_inst,
              !.dev._page_size_bytes = _sfdp_detect_page_size(param_table, basic_table_size)]
BasicTableRead(r, basic_table_size) ==
    IF ~r.ok THEN Failed(r)
    ELSE IF BitIsSet(r.rx[7], 128) THEN Failed(r)
    ELSE BasicResetDone(_sfdp_detect_reset_protocol_and_reset(
                            BasicDefaults(r.w, r.rx, basic_table_size), r.rx),
                        r.rx, basic_table_size)
_sfdp_parse_basic_param_table(w, basic_table_addr, basic_table_size) ==
    BasicTableRead(_qspi_send_read_sfdp_command(w, basic_table_addr, basic_table_size),
                   basic_table_size)

\* The loop over the regions i_ind.. of _sfdp_parse_sector_map_table; acc is
\* <<prev_boundary, min_common_erase_type_bits>>.
RECURSIVE ParseRegions(_, _, _, _)
ParseRegions(dev, table, i_ind, acc) ==
    IF i_ind >= dev._regions_count THEN [dev |-> dev, min_common_erase_type_bits |-> acc[2]]
    ELSE LET b == (i_ind + 1) * 4
             tmp_region_size == table[b + 3] * 65536 + table[b + 2] * 256 + table[b + 1]
             size == (tmp_region_size + 1) * 256
             types == table[b] % 16
             high == (size - 1) + acc[1]
         IN ParseRegions([dev EXCEPT !._region_size_bytes[i_ind] = size,
                                     !._region_erase_types_bitfield[i_ind] = types,
                                     !._region_high_boundary[i_ind] = high],
                         table, i_ind + 1, <<high + 1, BitAnd(acc[2], types)>>)

\* The first erase type (0..3) whose bit is set in bits, 4 when none is.
FirstType(bits) ==
    IF \E i \in 0..3 : BitIsSet(bits, Pow2(i))
    THEN CHOOSE i \in 0..3 : BitIsSet(bits, Pow2(i)) /\ \A j \in 0..(i - 1) : ~BitIsSet(bits, Pow2(j))
    ELSE 4

KeepEraseSize(pr) == pr.dev
\* _min_common_erase_size from the erase types common to all regions.
CommonEraseSize(pr) ==
    [pr.dev EXCEPT !._min_common_erase_size =
                       IF FirstType(pr.min_common_erase_type_bits) = 4 THEN 0
                       ELSE pr.dev._erase_type_size_arr[FirstType(pr.min_common_erase_type_bits)]]
SectorMapRead(r) ==
    IF ~r.ok THEN Failed(r)
    ELSE IF ~(r.rx[0] % 4 = 3) /\ r.rx[1] = 0 THEN Failed(r)
    ELSE IF r.rx[2] + 1 > QSPIF_MAX_REGIONS
    THEN Done([r.w EXCEPT !.dev._regions_count = r.rx[2] + 1], FALSE, 0)
    ELSE Done([r.w EXCEPT !.dev = CommonEraseSize(
                              ParseRegions([r.w.dev EXCEPT !._regions_count = r.rx[2] + 1],
                                           r.rx, 0, <<0, ERASE_BITMASK_ALL>>))],
              TRUE, 0)
_sfdp_parse_sector_map_table(w, sector_map_table_addr, sector_map_table_size) ==
    SectorMapRead(_qspi_send_read_sfdp_command(w, sector_map_table_addr, sector_map_table_size))

(***************************************************************************)
(* Utility functions.  An array read outside 0..QSPIF_MAX_REGIONS-1 (the   *)
(* region lookup returns -1 for some addresses) yields whatever lies next  *)
(* to the array: the caller passes it in as garbage.                       *)
(***************************************************************************)
ArrAt(arr, i, garbage) == IF i \in DOMAIN arr THEN arr[i] ELSE garbage

\* The loop of _utils_find_addr_region, from index i_ind downwards.
RECURSIVE FindRegionFrom(_, _, _)
FindRegionFrom(d, offset, i_ind) ==
    IF i_ind < 0 THEN -1
    ELSE IF offset > ArrAt(d._region_high_boundary, i_ind, 0) THEN i_ind + 1
    ELSE FindRegionFrom(d, offset, i_ind - 1)

_utils_find_addr_region(d, offset) ==
    IF offset > d._device_size_bytes \/ d._regions_count = 0 THEN -1
    ELSE IF d._regions_count = 1 THEN 0
    ELSE FindRegionFrom(d, offset, d._regions_count - 2)

\* The loop of _utils_iterate_next_largest_erase_type from type i_ind down;
\* the result is the type returned and the bitfield left in the caller's
\* variable.
RECURSIVE IterateTypes(_, _, _, _, _, _)
IterateTypes(d, bitfield, size, offset, boundry, st) ==
    IF st.i_ind < 0 THEN [type |-> st.largest_erase_type, bitfield |-> bitfield]
    ELSE LET type_mask == Pow2(st.i_ind)
             tsize == d._erase_type_size_arr[st.i_ind]
         IN IF ~BitIsSet(bitfield, type_mask)
            THEN IterateTypes(d, bitfield, size, offset, boundry,
                              [st EXCEPT !.i_ind = st.i_ind - 1])
            ELSE IF size > tsize /\ (boundry - offset) > tsize
            THEN [type |-> st.i_ind, bitfield |-> bitfield]
            ELSE IterateTypes(d, ClearBit(bitfield, type_mask), size, offset, boundry,
                              [i_ind |-> st.i_ind - 1, largest_erase_type |-> st.i_ind])

_utils_iterate_next_largest_erase_type(d, bitfield, size, offset, boundry) ==
    IterateTypes(d, bitfield, size, offset, boundry, [i_ind |-> 3, largest_erase_type |-> 0])

\* get_erase_size(addr): the smallest erase size of the region of addr.
get_erase_size(d, addr) ==
    LET region == _utils_find_addr_region(d, addr)
        t == FirstType(ArrAt(d._region_erase_types_bitfield, region, 0))
    IN IF region # -1 /\ t # 4 THEN d._erase_type_size_arr[t] ELSE d._min_common_erase_size

(***************************************************************************)
(* The chip-select registry: reg is [arr, count], the two static members.  *)
(***************************************************************************)
FirstSlot(arr, pin) == CHOOSE i \in DOMAIN arr : arr[i] = pin /\ \A j \in DOMAIN arr : arr[j] = pin => i <= j

add_checking_duplicate_first(reg, csel) ==
    IF \E i \in DOMAIN reg.arr : reg.arr[i] = csel THEN [reg |-> reg, status |-> -1]
    ELSE IF reg.count >= QSPIF_MAX_ACTIVE_FLASH_DEVICES THEN [reg |-> reg, status |-> -2]
    ELSE [reg |-> [arr |-> [reg.arr EXCEPT ![FirstSlot(reg.arr, NC)] = csel],
                   count |-> reg.count + 1],
          status |-> 0]

add_new_csel_instance(reg, csel) ==
    IF reg.count >= QSPIF_MAX_ACTIVE_FLASH_DEVICES THEN [reg |-> reg, status |-> -2]
    ELSE IF \E i \in DOMAIN reg.arr : reg.arr[i] = csel THEN [reg |-> reg, status |-> -1]
    ELSE [reg |-> [arr |-> IF \E i \in DOMAIN reg.arr : reg.arr[i] = NC
                           THEN [reg.arr EXCEPT ![FirstSlot(reg.arr, NC)] = csel]
                           ELSE reg.arr,
                   count |-> reg.count + 1],
          status |-> 0]

remove_csel_instance(reg, csel) ==
    IF \E i \in DOMAIN reg.arr : reg.arr[i] = csel
    THEN [arr |-> [reg.arr EXCEPT ![FirstSlot(reg.arr, csel)] = NC],
          count |-> IF reg.count > 0 THEN reg.count - 1 ELSE reg.count]
    ELSE reg

EmptyRegistry == [arr |-> [i \in 0..(QSPIF_MAX_ACTIVE_FLASH_DEVICES - 1) |-> NC], count |-> 0]

(***************************************************************************)
(* The driver instance.  The constructor initialises seven fields; the     *)
(* others hold what the storage of the object held before: all zeroes      *)
(* (static storage) or the fields of an earlier object (Stale).            *)
(***************************************************************************)
Regions == 0..(QSPIF_MAX_REGIONS - 1)
ZeroFields ==
    [_min_common_erase_size |-> 0, _regions_count |-> 0,
     _region_erase_types_bitfield |-> [i \in Regions |-> 0],
     _region_size_bytes |-> [i \in Regions |-> 0],
     _region_high_boundary |-> [i \in Regions |-> 0],
     _inst_width |-> 0, _address_width |-> 0, _address_size |-> 0, _data_width |-> 0,
     _dummy_and_mode_cycles |-> 0, _read_instruction |-> 0, _prog_instruction |-> 0,
     _erase_instruction |-> 0, _erase4k_inst |-> 0, _page_size_bytes |-> 0,
     _erase_type_inst_arr |-> [i \in 0..3 |-> 0], _erase_type_size_arr |-> [i \in 0..3 |-> 0]]
StaleFields ==
    [ZeroFields EXCEPT !._regions_count = 1, !._inst_width = QSPI_CFG_BUS_SINGLE,
                       !._address_width = QSPI_CFG_BUS_SINGLE, !._address_size = QSPI_CFG_ADDR_SIZE_24,
                       !._data_width = QSPI_CFG_BUS_SINGLE, !._read_instruction = QSPIF_READ,
                       !._prog_instruction = QSPIF_PP, !._page_size_bytes = QSPIF_DEFAULT_PAGE_SIZE]
Leftovers == [zero |-> ZeroFields, stale |-> StaleFields]

\* QSPIFBlockDevice::QSPIFBlockDevice: the result is the new object and the
\* registry afterwards.
Constructor(reg, csel, leftover) ==
    LET a == add_new_csel_instance(reg, csel)
    IN [dev |-> [_csel |-> csel, _device_size_bytes |-> 0, _init_ref_count |-> 0,
                 _is_initialized |-> FALSE, _unique_device_status |-> a.status,
                 _write_status_reg_2_inst |-> QSPI_NO_INST,
                 _read_status_reg_2_inst |-> QSPIF_INST_RSR2_DEFAULT,
                 _4byte_msb_reg_write_inst |-> QSPI_NO_INST] @@ leftover,
        reg |-> a.reg]

(***************************************************************************)
(* State.                                                                  *)
(***************************************************************************)
VARIABLES
    registry,    \* _active_qspif_flash_csel_arr and _number_of_active_qspif_flash_csel
    dev,         \* the fields of the driver instance under study
    _mutex,      \* the thread that holds the device mutex, 0 when free
    qspi,        \* the format the transport frames transactions with
    chip,        \* the flash part behind the transport
    others,      \* construction status of the other driver instances: <<csel, status>>
    pc,          \* where each thread is in the operation it called
    lv,          \* the parameters and local variables of that operation
    plan,        \* what the environment has in store for its transport calls
    bus,         \* the bus transactions of the latest step
    last,        \* the operation that returned in the latest step, and its result
                 \* (where cfg.keep is set, the latest operation that returned)
    lastw,       \* the latest program or erase that returned ok, until another
                 \* operation than read returns
    live,        \* init calls that returned ok and were not yet balanced by a deinit
    mutex_err,   \* the mutex was unlocked by a thread that did not hold it
    ctor,        \* what the registry was like when the instance was constructed
    cfg          \* the calls the environment makes (never changes)

vars == <<registry, dev, _mutex, qspi, chip, others, pc, lv, plan, bus, last, lastw,
          live, mutex_err, ctor, cfg>>

Threads == {1, 2}
Csels == {1, 2, 3}
DivZeroOutcomes == {"zero", "trap"}
GarbageBitfield == {0, 7}
GarbageBoundary == {0, 16777215}

NoPlan == [fail |-> 0, nrdy |-> 0, hang |-> FALSE]
\* The plans with a failing transport call among the first maxFail, or a
\* busy wait among the first maxNrdy that does not see the chip ready.
Plans(maxFail, maxNrdy) ==
    {NoPlan} \cup {[NoPlan EXCEPT !.fail = k] : k \in 1..maxFail}
             \cup {[fail |-> 0, nrdy |-> k, hang |-> h] : k \in 1..maxNrdy, h \in BOOLEAN}

NoLv == [op |-> "none", a0 |-> 0, n0 |-> 0, addr |-> 0, size |-> 0, pat |-> 0, off |-> 0,
         chunk |-> 0, region |-> 0, bitfield |-> 0, type |-> 0, gbound |-> 0,
         status |-> QSPIF_BD_ERROR_OK, io |-> FALSE]
NoLast == [op |-> "none", addr |-> 0, size |-> 0, ret |-> QSPIF_BD_ERROR_OK, rx |-> 0,
           io |-> FALSE]
NoLastw == [op |-> "none", addr |-> 0, size |-> 0, pat |-> 0]

\* The registry and the construction statuses after the first n instances of
\* the list before were constructed.
RECURSIVE Built(_, _)
Built(before, n) ==
    IF n = 0 THEN [reg |-> EmptyRegistry, st |-> <<>>]
    ELSE LET b == Built(before, n - 1)
             a == add_new_csel_instance(b.reg, before[n])
         IN [reg |-> a.reg, st |-> Append(b.st, <<before[n], a.status>>)]

\* The state after the other instances listed in before, then the instance
\* under study, were constructed, for an environment c.
InitWith(c) ==
    /\ cfg = c
    /\ \E part \in c.parts, leftover \in c.leftovers, csel \in c.csels, before \in c.before,
          busy \in c.busy, bp \in c.protect, tweak \in c.tweaks :
          LET o == Built(before, Len(before))
              k == Constructor(o.reg, csel, Leftovers[leftover])
          IN /\ registry = k.reg
             /\ dev = k.dev
             /\ others = o.st
             /\ ctor = [held |-> \E i \in DOMAIN o.reg.arr : o.reg.arr[i] = csel,
                        full |-> o.reg.count >= QSPIF_MAX_ACTIVE_FLASH_DEVICES]
             /\ chip = [part |-> part, tweak |-> tweak, wel |-> FALSE, wip |-> busy,
                        sr1 |-> bp, sr2 |-> 0,
                        addr_bytes |-> PartResetAddrBytes(part), ext |-> 0,
                        conf |-> 0, bank |-> 0,
                        mem |-> [p \in Probes |-> 17]]
    /\ _mutex = 0
    /\ qspi = [inst_width |-> QSPI_CFG_BUS_SINGLE, address_width |-> QSPI_CFG_BUS_SINGLE,
               address_size |-> QSPI_CFG_ADDR_SIZE_24, data_width |-> QSPI_CFG_BUS_SINGLE,
               dummy |-> 0]
    /\ pc = [t \in Threads |-> "idle"]
    /\ lv = [t \in Threads |-> NoLv]
    /\ plan = [t \in Threads |-> NoPlan]
    /\ bus = <<>>
    /\ last = NoLast
    /\ lastw = NoLastw
    /\ live = 0
    /\ mutex_err = FALSE

(***************************************************************************)
(* Steps.  World(t) is the world a step of thread t starts in.  A step     *)
(* ends in Goto (the operation goes on), Return (it returns ret) or, when  *)
(* the call it made cannot return, in Hang.                                *)
(***************************************************************************)
World(t) ==
    [dev |-> dev, qspi |-> qspi, chip |-> chip, bus |-> <<>>, op |-> lv[t].op,
     fail |-> plan[t].fail, nrdy |-> plan[t].nrdy, hang |-> plan[t].hang, hung |-> FALSE]

Goto(t, w, newpc, newlv) ==
    /\ dev' = w.dev /\ qspi' = w.qspi /\ chip' = w.chip /\ bus' = w.bus
    /\ plan' = [plan EXCEPT ![t] = [fail |-> w.fail, nrdy |-> w.nrdy, hang |-> w.hang]]
    /\ pc' = [pc EXCEPT ![t] = newpc]
    /\ lv' = [lv EXCEPT ![t] = [newlv EXCEPT !.io = newlv.io \/ w.bus # <<>>]]
    /\ last' = IF cfg.track /\ ~cfg.keep THEN NoLast ELSE last
    /\ UNCHANGED <<lastw, live>>

Hang(t, w) == Goto(t, w, "hung", lv[t])

Return(t, w, l, ret, rx) ==
    /\ dev' = w.dev /\ qspi' = w.qspi /\ chip' = w.chip /\ bus' = w.bus
    /\ plan' = [plan EXCEPT ![t] = NoPlan]
    /\ pc' = [pc EXCEPT ![t] = "idle"]
    /\ lv' = [lv EXCEPT ![t] = NoLv]
    /\ last' = IF cfg.track
               THEN [op |-> l.op, addr |-> l.a0, size |-> l.n0, ret |-> ret, rx |-> rx,
                     io |-> l.io \/ w.bus # <<>>]
               ELSE last
    /\ lastw' = IF ~cfg.track THEN lastw
                ELSE IF l.op = "read" THEN lastw
                ELSE IF l.op \in {"program", "erase"} /\ ret = QSPIF_BD_ERROR_OK
                THEN [op |-> l.op, addr |-> l.a0, size |-> l.n0, pat |-> l.pat]
                ELSE NoLastw
    /\ live' = IF ~cfg.track THEN live
               ELSE IF l.op = "init" /\ ret = QSPIF_BD_ERROR_OK THEN live + 1
               ELSE IF l.op = "deinit" /\ live > 0 THEN live - 1
               ELSE live

NoWait(t) == TRUE
\* _mutex.lock() returns once the mutex is free.
CanLock(t) == _mutex = 0
Lock(t) == /\ CanLock(t) /\ _mutex' = t /\ UNCHANGED mutex_err
Unlock(t) == /\ _mutex' = 0 /\ mutex_err' = (mutex_err \/ _mutex # t)
KeepMutex == UNCHANGED <<_mutex, mutex_err>>
KeepLocked(t, failed) == KeepMutex
\* exit_point of program and of erase: unlock if the failure flag is set.
ExitPoint(t, failed) == IF failed THEN Unlock(t) ELSE KeepMutex
WithPlan(w, pl) == [w EXCEPT !.fail = pl.fail, !.nrdy = pl.nrdy, !.hang = pl.hang]
Frame == UNCHANGED <<registry, others, ctor, cfg>>

(***************************************************************************)
(* init                                                                    *)
(***************************************************************************)
\* Lines 175-183: an instance whose construction failed returns at once.
CallInit(t) ==
    /\ t \in cfg.threads
    /\ pc[t] = "idle"
    /\ dev._init_ref_count < MaxInitRef \/ ~dev._is_initialized
    /\ \E pl \in cfg.initPlans :
          LET l == [NoLv EXCEPT !.op = "init"]
          IN IF dev._unique_device_status = 0
             THEN Goto(t, WithPlan(World(t), pl), "init_lock", l)
             ELSE Return(t, World(t), l,
                         IF dev._unique_device_status = -1
                         THEN QSPIF_BD_ERROR_DEVICE_NOT_UNIQE
                         ELSE QSPIF_BD_ERROR_DEVICE_MAX_EXCEED, 0)
    /\ KeepMutex /\ Frame

KeepCount(d) == d._init_ref_count
\* Lines 197-199: a device that is not initialized starts counting afresh.
ResetCount(d) == IF ~d._is_initialized THEN 0 ELSE d._init_ref_count
NeverNested(d) == FALSE
\* Line 203: any init but the first returns without touching the device.
NestedInit(d) == d._init_ref_count # 1

\* Lines 191-217.
InitLock(t) ==
    /\ pc[t] = "init_lock"
    /\ Lock(t)
    /\ LET w1 == RestoreFormat(World(t))
           w2 == [w1 EXCEPT !.dev._init_ref_count = ResetCount(dev) + 1]
           w3 == [w2 EXCEPT !.dev._min_common_erase_size = 0,
                            !.dev._regions_count = 1,
                            !.dev._region_erase_types_bitfield[0] = ERASE_BITMASK_NONE,
                            !.dev._inst_width = QSPI_CFG_BUS_SINGLE,
                            !.dev._address_width = QSPI_CFG_BUS_SINGLE,
                            !.dev._address_size = QSPI_CFG_ADDR_SIZE_24,
                            !.dev._data_width = QSPI_CFG_BUS_SINGLE,
                            !.dev._dummy_and_mode_cycles = 0]
       IN IF NestedInit(w2.dev) THEN Goto(t, w2, "init_exit", lv[t])
          ELSE Goto(t, w3, "init_body", lv[t])
    /\ Frame

\* Lines 219-267, each step on the result of the one before: the world
\* afterwards and the status init returns.
Status(r, status) == [w |-> r.w, status |-> status]
ProtectionCleared(cb) ==
    IF ~cb.ok THEN Status(cb, QSPIF_BD_ERROR_PARSING_FAILED)
    ELSE [w |-> [cb.w EXCEPT !.dev._is_initialized = TRUE], status |-> QSPIF_BD_ERROR_OK]
SectorMapParsed(sm) ==
    IF ~sm.ok THEN Status(sm, QSPIF_BD_ERROR_PARSING_FAILED)
    ELSE ProtectionCleared(_clear_block_protection(sm.w))
\* Lines 247-249: until a sector map says otherwise, one region.
SingleRegion(w) ==
    [w EXCEPT !.dev._region_size_bytes[0] = w.dev._device_size_bytes,
              !.dev._region_high_boundary[0] = w.dev._device_size_bytes - 1]
BasicTableParsed(b, tables) ==
    IF ~b.ok THEN Status(b, QSPIF_BD_ERROR_PARSING_FAILED)
    ELSE IF tables.sector_map_table_addr # 0 /\ tables.sector_map_table_size # 0
    THEN SectorMapParsed(_sfdp_parse_sector_map_table(SingleRegion(b.w),
                                                      tables.sector_map_table_addr,
                                                      tables.sector_map_table_size))
    ELSE SectorMapParsed(Done(SingleRegion(b.w), TRUE, 0))
HeadersParsed(h) ==
    IF ~h.ok THEN Status(h, QSPIF_BD_ERROR_PARSING_FAILED)
    ELSE BasicTableParsed(_sfdp_parse_basic_param_table(h.w, h.rx.basic_table_addr,
                                                        h.rx.basic_table_size),
                          h.rx)
Synchronized(m) ==
    IF ~m.ok THEN Status(m, QSPIF_BD_ERROR_READY_FAILED)
    ELSE HeadersParsed(_sfdp_parse_sfdp_headers(m.w))
FrequencySet(f) ==
    IF ~f.ok THEN Status(f, QSPIF_BD_ERROR_DEVICE_ERROR)
    ELSE Synchronized(_is_mem_ready(f.w))
InitDiscovery(w) == FrequencySet(_qspi_set_frequency(w))

InitBody(t) ==
    /\ pc[t] = "init_body"
    /\ LET r == InitDiscovery(World(t))
       IN IF r.w.hung THEN Hang(t, r.w)
          ELSE Goto(t, r.w, "init_exit", [lv[t] EXCEPT !.status = r.status])
    /\ KeepMutex /\ Frame

\* exit_point, lines 269-272.
InitExit(t) ==
    /\ pc[t] = "init_exit"
    /\ Unlock(t)
    /\ Return(t, World(t), lv[t], lv[t].status, 0)
    /\ Frame

(***************************************************************************)
(* deinit                                                                  *)
(***************************************************************************)
CallDeinit(t) ==
    /\ t \in cfg.threads
    /\ pc[t] = "idle"
    /\ \E pl \in cfg.plans :
          Goto(t, WithPlan(World(t), pl), "deinit_lock", [NoLv EXCEPT !.op = "deinit"])
    /\ KeepMutex /\ Frame

AssumeInitialized(d) == FALSE
\* Line 281: there is nothing to tear down.
NotInitialized(d) == ~d._is_initialized

DeinitLock(t) ==
    /\ pc[t] = "deinit_lock"
    /\ Lock(t)
    /\ Goto(t, World(t), "deinit_body", lv[t])
    /\ Frame

\* A tear-down that stops at a failed write-disable.
TornDownIfOk(r) == IF r.ok THEN [r.w EXCEPT !.dev._is_initialized = FALSE] ELSE r.w
\* Line 301: whatever the write-disable returned, the device is marked
\* not initialized.
TornDown(r) == [r.w EXCEPT !.dev._is_initialized = FALSE]

\* Lines 281-303.
DeinitBody(t) ==
    /\ pc[t] = "deinit_body"
    /\ Unlock(t)
    /\ LET w == World(t)
           w0 == [w EXCEPT !.dev._init_ref_count = 0]
           w1 == [w EXCEPT !.dev._init_ref_count = dev._init_ref_count - 1]
           r == _qspi_send_general_command(w1, QSPIF_WRDI, QSPI_NO_ADDRESS_COMMAND, NoTx, 0, 0)
       IN IF NotInitialized(dev) THEN Return(t, w0, lv[t], QSPIF_BD_ERROR_OK, 0)
          ELSE IF w1.dev._init_ref_count # 0 THEN Return(t, w1, lv[t], QSPIF_BD_ERROR_OK, 0)
          ELSE Goto(t, TornDown(r), "deinit_remove",
                    [lv[t] EXCEPT !.status = IF r.ok THEN QSPIF_BD_ERROR_OK
                                             ELSE QSPIF_BD_ERROR_DEVICE_ERROR])
    /\ Frame

\* Lines 305-309.
DeinitRemove(t) ==
    /\ pc[t] = "deinit_remove"
    /\ registry' = IF dev._unique_device_status = 0
                   THEN remove_csel_instance(registry, dev._csel) ELSE registry
    /\ Return(t, World(t), lv[t], lv[t].status, 0)
    /\ KeepMutex /\ UNCHANGED <<others, ctor, cfg>>

(***************************************************************************)
(* read                                                                    *)
(***************************************************************************)
CallRead(t) ==
    /\ t \in cfg.threads
    /\ pc[t] = "idle"
    /\ \E in \in cfg.reads, pl \in cfg.plans :
          Goto(t, WithPlan(World(t), pl), "read_lock",
               [NoLv EXCEPT !.op = "read", !.a0 = in[1], !.n0 = in[2],
                            !.addr = in[1], !.size = in[2]])
    /\ KeepMutex /\ Frame

ReadLock(t) ==
    /\ pc[t] = "read_lock"
    /\ Lock(t)
    /\ Goto(t, World(t), "read_cmd", lv[t])
    /\ Frame

\* Lines 319-325.
ReadCmd(t) ==
    /\ pc[t] = "read_cmd"
    /\ LET r == _qspi_send_read_command(World(t), dev._read_instruction, lv[t].addr, lv[t].size)
       IN IF r.w.hung THEN Hang(t, r.w) /\ KeepMutex
          ELSE /\ Unlock(t)
               /\ Return(t, r.w, lv[t],
                         IF r.ok THEN QSPIF_BD_ERROR_OK ELSE QSPIF_BD_ERROR_DEVICE_ERROR,
                         IF r.ok THEN r.rx ELSE 0)
    /\ Frame

(***************************************************************************)
(* program                                                                 *)
(***************************************************************************)
CallProgram(t) ==
    /\ t \in cfg.threads
    /\ pc[t] = "idle"
    /\ \E in \in cfg.programs, pat \in cfg.pats, pl \in cfg.plans :
          Goto(t, WithPlan(World(t), pl), "prog_chunk",
               [NoLv EXCEPT !.op = "program", !.a0 = in[1], !.n0 = in[2],
                            !.addr = in[1], !.size = in[2], !.pat = pat])
    /\ KeepMutex /\ Frame

WholeRest(page, addr, size) == size
\* Lines 342-343: the bytes to program next, up to the end of the page of
\* addr at most.
PageChunk(page, addr, size) ==
    LET offset == IF page = 0 THEN 0 ELSE addr % page
    IN IF offset + size < page THEN size ELSE page - offset

\* Lines 340-344 and 382: the loop test and the chunk, computed before the
\* mutex is taken.  A remainder by a zero page size is 0 or a trap.
ProgChunk(t) ==
    /\ pc[t] = "prog_chunk"
    /\ LET page == dev._page_size_bytes
           chunk == PageChunk(page, lv[t].addr, lv[t].size)
       IN IF lv[t].size > 0
          THEN \E z \in (IF page = 0 THEN DivZeroOutcomes ELSE {"none"}) :
                  IF z = "trap" THEN Goto(t, World(t), "fault", lv[t])
                  ELSE Goto(t, World(t), "prog_lock", [lv[t] EXCEPT !.chunk = chunk])
          ELSE Return(t, World(t), lv[t], lv[t].status, 0)
    /\ KeepMutex /\ Frame

ProgLock(t) ==
    /\ pc[t] = "prog_lock"
    /\ Lock(t)
    /\ Goto(t, World(t), "prog_wren", lv[t])
    /\ Frame

\* Lines 349-354.
ProgWren(t) ==
    /\ pc[t] = "prog_wren"
    /\ LET r == _set_write_enable(World(t))
       IN IF r.w.hung THEN Hang(t, r.w) /\ KeepMutex
          ELSE IF ~r.ok
          THEN ExitPoint(t, TRUE) /\ Return(t, r.w, lv[t], QSPIF_BD_ERROR_WREN_FAILED, 0)
          ELSE Goto(t, r.w, "prog_cmd", lv[t]) /\ KeepMutex
    /\ Frame

\* The byte counts the transport can report for a write of chunk bytes.
WrittenBytes(chunk) == IF cfg.shorts /\ chunk > 1 THEN {chunk, chunk - 1} ELSE {chunk}

\* Lines 356-366.  written is the number of bytes the transport wrote and
\* reports back through the size argument.
ProgCmd(t) ==
    /\ pc[t] = "prog_cmd"
    /\ \E written \in WrittenBytes(lv[t].chunk) :
          LET r == _qspi_send_program_command(World(t), dev._prog_instruction,
                                              <<lv[t].pat, lv[t].off>>, lv[t].addr, written)
          IN IF r.w.hung THEN Hang(t, r.w) /\ KeepMutex
             ELSE IF ~r.ok \/ lv[t].chunk # written
             THEN ExitPoint(t, TRUE) /\ Return(t, r.w, lv[t], QSPIF_BD_ERROR_DEVICE_ERROR, 0)
             ELSE /\ Goto(t, r.w, "prog_ready",
                          [lv[t] EXCEPT !.off = lv[t].off + lv[t].chunk,
                                        !.addr = lv[t].addr + lv[t].chunk,
                                        !.size = lv[t].size - lv[t].chunk])
                  /\ KeepMutex
    /\ Frame

\* Lines 368-374.
ProgReady(t) ==
    /\ pc[t] = "prog_ready"
    /\ LET r == _is_mem_ready(World(t))
       IN IF r.w.hung THEN Hang(t, r.w) /\ KeepMutex
          ELSE IF ~r.ok
          THEN ExitPoint(t, TRUE) /\ Return(t, r.w, lv[t], QSPIF_BD_ERROR_READY_FAILED, 0)
          ELSE Goto(t, r.w, "prog_chunk", lv[t]) /\ Unlock(t)
    /\ Frame

(***************************************************************************)
(* erase                                                                   *)
(***************************************************************************)
CallErase(t) ==
    /\ t \in cfg.threads
    /\ pc[t] = "idle"
    /\ \E in \in cfg.erases, pl \in cfg.plans :
          Goto(t, WithPlan(World(t), pl), "erase_check",
               [NoLv EXCEPT !.op = "erase", !.a0 = in[1], !.n0 = in[2],
                            !.addr = in[1], !.size = in[2]])
    /\ KeepMutex /\ Frame

\* Lines 394-409, without the mutex.  For region -1 the bitfield and, later,
\* the boundary are read in front of the arrays.
EraseCheck(t) ==
    /\ pc[t] = "erase_check"
    /\ LET addr == lv[t].addr
           in_size == lv[t].size
           region == _utils_find_addr_region(dev, addr)
           es1 == get_erase_size(dev, addr)
           es2 == get_erase_size(dev, addr + in_size - 1)
           inside == ~(addr + in_size > dev._device_size_bytes)
           divzero == inside /\ (es1 = 0 \/ (addr % es1 = 0 /\ es2 = 0))
           rem1 == IF es1 = 0 THEN 0 ELSE addr % es1
           rem2 == IF es2 = 0 THEN 0 ELSE (addr + in_size) % es2
       IN \E gbits \in (IF region \in Regions THEN {0} ELSE GarbageBitfield),
             gbound \in (IF region \in Regions THEN {0} ELSE GarbageBoundary),
             z \in (IF divzero THEN DivZeroOutcomes ELSE {"none"}) :
             IF ~inside THEN Return(t, World(t), lv[t], QSPIF_BD_ERROR_INVALID_ERASE_PARAMS, 0)
             ELSE IF z = "trap" THEN Goto(t, World(t), "fault", lv[t])
             ELSE IF rem1 # 0 \/ rem2 # 0
             THEN Return(t, World(t), lv[t], QSPIF_BD_ERROR_INVALID_ERASE_PARAMS, 0)
             ELSE Goto(t, World(t), "erase_iter",
                       [lv[t] EXCEPT !.region = region, !.gbound = gbound,
                                     !.bitfield = ArrAt(dev._region_erase_types_bitfield,
                                                        region, gbits)])
    /\ KeepMutex /\ Frame

\* Lines 412-423 and 465: the loop test, the erase type and the chunk.
EraseIter(t) ==
    /\ pc[t] = "erase_iter"
    /\ LET boundary == ArrAt(dev._region_high_boundary, lv[t].region, lv[t].gbound)
           it == _utils_iterate_next_largest_erase_type(dev, lv[t].bitfield, lv[t].size,
                                                        lv[t].addr, boundary)
           tsize == dev._erase_type_size_arr[it.type]
           offset == IF tsize = 0 THEN 0 ELSE lv[t].addr % tsize
           chunk == IF offset + lv[t].size < tsize THEN lv[t].size ELSE tsize - offset
       IN IF lv[t].size > 0
          THEN \E z \in (IF tsize = 0 THEN DivZeroOutcomes ELSE {"none"}) :
                  IF z = "trap" THEN Goto(t, World(t), "fault", lv[t])
                  ELSE Goto(t, World(t), "erase_lock",
                            [lv[t] EXCEPT !.type = it.type, !.bitfield = it.bitfield,
                                          !.chunk = chunk])
          ELSE Return(t, World(t), lv[t], lv[t].status, 0)
    /\ KeepMutex /\ Frame

EraseLock(t) ==
    /\ pc[t] = "erase_lock"
    /\ Lock(t)
    /\ Goto(t, World(t), "erase_wren", lv[t])
    /\ Frame

\* Lines 427-432.
EraseWren(t) ==
    /\ pc[t] = "erase_wren"
    /\ LET r == _set_write_enable(World(t))
       IN IF r.w.hung THEN Hang(t, r.w) /\ KeepMutex
          ELSE IF ~r.ok
          THEN ExitPoint(t, TRUE) /\ Return(t, r.w, lv[t], QSPIF_BD_ERROR_WREN_FAILED, 0)
          ELSE Goto(t, r.w, "erase_cmd", lv[t]) /\ KeepMutex
    /\ Frame

\* Lines 434-448.
EraseCmd(t) ==
    /\ pc[t] = "erase_cmd"
    /\ LET r == _qspi_send_erase_command(World(t), dev._erase_type_inst_arr[lv[t].type],
                                         lv[t].addr, lv[t].size)
           addr == lv[t].addr + lv[t].chunk
           size == lv[t].size - lv[t].chunk
           crossed == size > 0
                      /\ addr > ArrAt(dev._region_high_boundary, lv[t].region, lv[t].gbound)
       IN IF r.w.hung THEN Hang(t, r.w) /\ KeepMutex
          ELSE IF ~r.ok
          THEN ExitPoint(t, TRUE) /\ Return(t, r.w, lv[t], QSPIF_BD_ERROR_DEVICE_ERROR, 0)
          ELSE /\ \E gbits \in (IF crossed /\ lv[t].region + 1 \notin Regions
                                THEN GarbageBitfield ELSE {0}) :
                      Goto(t, r.w, "erase_ready",
                           [lv[t] EXCEPT !.addr = addr, !.size = size,
                                         !.region = IF crossed THEN lv[t].region + 1
                                                    ELSE lv[t].region,
                                         !.bitfield =
                                             IF crossed
                                             THEN ArrAt(dev._region_erase_types_bitfield,
                                                        lv[t].region + 1, gbits)
                                             ELSE lv[t].bitfield])
               /\ KeepMutex
    /\ Frame

\* Lines 450-457.
EraseReady(t) ==
    /\ pc[t] = "erase_ready"
    /\ LET r == _is_mem_ready(World(t))
       IN IF r.w.hung THEN Hang(t, r.w) /\ KeepMutex
          ELSE IF ~r.ok
          THEN ExitPoint(t, TRUE) /\ Return(t, r.w, lv[t], QSPIF_BD_ERROR_READY_FAILED, 0)
          ELSE Goto(t, r.w, "erase_iter", lv[t]) /\ Unlock(t)
    /\ Frame

(***************************************************************************)
(* Another driver instance is constructed on chip-select csel.             *)
(***************************************************************************)
ConstructOther(csel) ==
    /\ Len(others) < MaxBefore + MaxOthers
    /\ LET a == add_new_csel_instance(registry, csel)
       IN /\ registry' = a.reg
          /\ others' = Append(others, <<csel, a.status>>)
    /\ bus' = <<>>
    /\ last' = NoLast
    /\ UNCHANGED <<dev, _mutex, qspi, chip, pc, lv, plan, lastw, live, mutex_err, ctor, cfg>>

(***************************************************************************)
(* The environments.                                                       *)
(***************************************************************************)
SeqsUpTo(S, n) == UNION {[1..k -> S] : k \in 0..n}

\* Two threads on one initialized-or-not device.
CfgConc ==
    [threads |-> {1, 2}, parts |-> {"A"}, leftovers |-> {"stale"}, csels |-> {1},
     before |-> {<<>>}, busy |-> {FALSE}, protect |-> {0},
     reads |-> {<<496, 32>>}, programs |-> {<<496, 32>>}, pats |-> {1},
     erases |-> {<<0, 8192>>}, plans |-> Plans(1, 0), initPlans |-> Plans(1, 0),
     track |-> FALSE,
     shorts |-> FALSE, tweaks |-> {NoTweak}, keep |-> FALSE]
\* One thread, every failure of every operation.
CfgLife ==
    [threads |-> {1}, parts |-> {"A"}, leftovers |-> {"stale"}, csels |-> {1},
     before |-> {<<>>}, busy |-> BOOLEAN, protect |-> {28},
     reads |-> {<<496, 32>>}, programs |-> {<<496, 32>>}, pats |-> {1},
     erases |-> {<<0, 4096>>}, plans |-> Plans(MaxFail, MaxNrdy),
     initPlans |-> Plans(MaxFailInit, MaxNrdy), track |-> TRUE,
     shorts |-> FALSE, tweaks |-> {NoTweak}, keep |-> FALSE]
\* One thread, every part, no failure.
CfgData ==
    [threads |-> {1}, parts |-> Parts, leftovers |-> {"zero"}, csels |-> {1},
     before |-> {<<>>}, busy |-> {FALSE}, protect |-> {0},
     reads |-> {<<496, 32>>, <<16777216, 16>>, <<0, 4096>>, <<16777216, 4096>>},
     programs |-> {<<496, 32>>, <<16777216, 16>>}, pats |-> {1, 2},
     erases |-> {<<0, 4096>>, <<16777216, 4096>>, <<4097, 4096>>},
     plans |-> {NoPlan}, initPlans |-> {NoPlan}, track |-> TRUE,
     shorts |-> FALSE, tweaks |-> {NoTweak}, keep |-> FALSE]
\* One thread, several instances.
CfgReg ==
    [threads |-> {1}, parts |-> {"A"}, leftovers |-> {"zero"}, csels |-> Csels,
     before |-> SeqsUpTo(Csels, MaxBefore), busy |-> {FALSE}, protect |-> {0},
     reads |-> {}, programs |-> {}, pats |-> {1}, erases |-> {},
     plans |-> {NoPlan}, initPlans |-> Plans(1, 0), track |-> TRUE,
     shorts |-> FALSE, tweaks |-> {NoTweak}, keep |-> FALSE]
\* One thread, no failure: ranges that meet the page, sector and region
\* boundaries and the 16 MiB line of the parts in every way.
CfgGeom ==
    [threads |-> {1}, parts |-> {"A", "C", "E"}, leftovers |-> {"zero"}, csels |-> {1},
     before |-> {<<>>}, busy |-> {FALSE}, protect |-> {0},
     reads |-> {<<496, 32>>, <<16777216, 16>>},
     programs |-> {<<496, 32>>, <<496, 600>>, <<0, 256>>, <<255, 1>>, <<16777216, 16>>},
     pats |-> {1},
     erases |-> {<<0, 4096>>, <<4097, 4096>>, <<0, 6144>>, <<0, 65536>>, <<4096, 131072>>,
                 <<16773120, 8192>>, <<16777216, 65536>>, <<33554432, 4096>>,
                 <<32768, 69632>>},
     plans |-> {NoPlan}, initPlans |-> {NoPlan}, track |-> TRUE,
     shorts |-> FALSE, tweaks |-> {NoTweak}, keep |-> FALSE]
\* One thread, no failure, a part with 3-byte addresses and one behind an
\* extended-address register.
\* One thread on the single-region part, fresh or busy: programs of one and
\* of two chunks, erases of one and of two steps, with transport failures,
\* short writes and waits that never see the chip ready.
CfgSeq ==
    [threads |-> {1}, parts |-> {"A"}, leftovers |-> {"zero"}, csels |-> {1},
     before |-> {<<>>}, busy |-> BOOLEAN, protect |-> {0},
     reads |-> {<<496, 32>>}, programs |-> {<<496, 32>>, <<240, 32>>}, pats |-> {1},
     erases |-> {<<0, 4096>>, <<0, 8192>>}, plans |-> Plans(MaxFail, MaxNrdy),
     initPlans |-> {NoPlan}, track |-> TRUE,
     shorts |-> TRUE, tweaks |-> {NoTweak}, keep |-> FALSE]
CfgFair ==
    [threads |-> {1}, parts |-> {"A", "D"}, leftovers |-> {"stale"}, csels |-> {1},
     before |-> {<<>>}, busy |-> {FALSE}, protect |-> {0},
     reads |-> {<<496, 32>>}, programs |-> {<<496, 32>>}, pats |-> {1},
     erases |-> {<<0, 4096>>}, plans |-> {NoPlan}, initPlans |-> {NoPlan}, track |-> TRUE,
     shorts |-> FALSE, tweaks |-> {NoTweak}, keep |-> FALSE]

\* A thread of the environment makes a step of the operation it is in, or
\* calls one.
\* Chips that differ from a part in some bytes of the tables.  TweakBasic
\* places bytes of the Basic Parameters table (at discovery address 48).
TweakBasic(f) == [a \in {48 + k : k \in DOMAIN f} |-> f[a - 48]]
Chips(sfdps) == {[NoTweak EXCEPT !.sfdp = f] : f \in sfdps}
\* Read instruction and dummy bytes of the six fast read modes (1-4-4 in
\* bytes 8-9, 1-1-2 in 12-13, 1-2-2 in 14-15, 2-2-2 in 22-23, 4-4-4 in
\* 26-27; 1-1-4 is in bytes 10-11 of every part) and the 4-4-4 enable
\* sequence 38h.
ModeBytes ==
    (8 :> 68) @@ (9 :> 235) @@ (12 :> 8) @@ (13 :> 59) @@ (14 :> 4) @@ (15 :> 187)
    @@ (22 :> 5) @@ (23 :> 187) @@ (26 :> 2) @@ (27 :> 235) @@ (56 :> 16)
\* Every combination of the six read-mode support bits.
ModeTweaks ==
    Chips({TweakBasic(ModeBytes @@ (2 :> a + b + c + d) @@ (16 :> e + f)) :
               a \in {0, 1}, b \in {0, 16}, c \in {0, 32}, d \in {0, 64},
               e \in {0, 1}, f \in {0, 16}})
\* Every combination of the six 4-byte-addressing bits the driver looks at.
AddrTweaks ==
    Chips({TweakBasic(63 :> a + b + c + d + e + f) :
               a \in {0, 1}, b \in {0, 2}, c \in {0, 4}, d \in {0, 8},
               e \in {0, 16}, f \in {0, 64}})
\* The soft-reset bits 3 and 4 of byte 61; the eight Quad Enable
\* requirements of byte 58 on a part with 1-1-4 reads, with volatile and
\* with non-volatile status registers.
ResetTweaks == Chips({TweakBasic(61 :> v) : v \in {0, 8, 16, 24}})
QerTweaks ==
    {[NoTweak EXCEPT !.sfdp = TweakBasic(58 :> 16 * q), !.quick = k] : q \in 0..7, k \in BOOLEAN}
\* A chip of manufacturer BFh.
MfrTweaks == {[NoTweak EXCEPT !.mfr = 191]}
\* Discovery headers: a wrong signature byte, a wrong byte 5, a parameter
\* header of major version 2 (first, second).
HeaderTweaks == Chips({(0 :> 84), (3 :> 81), (5 :> 0), (5 :> 2), (10 :> 2), (18 :> 2)})
\* Parameter headers: a Basic table announced with 20 DWORDs; the second
\* header with LSB 81h, with LSB 51h and MSB FEh, with another table address
\* and length; a third header of a kind the driver does not know.
KindTweaks ==
    Chips({(11 :> 20), (16 :> 129), (23 :> 254), (16 :> 130),
           (6 :> 2) @@ (24 :> 3) @@ (25 :> 0) @@ (26 :> 1) @@ (27 :> 2) @@ (28 :> 160)
           @@ (29 :> 0) @@ (30 :> 0) @@ (31 :> 255)})
\* The first word of the Sector Map: bits 0-1 of byte 0, byte 1, and the
\* region count byte 2.
MapTweaks ==
    Chips({(128 :> b0) @@ (129 :> b1) : b0 \in 0..3, b1 \in {0, 1}} \cup {(130 :> 4)})
\* One thread on chips whose tables differ in every way the parsers look
\* at, no failure.
CfgTables ==
    [threads |-> {1}, parts |-> {"C"}, leftovers |-> {"zero"}, csels |-> {1},
     before |-> {<<>>}, busy |-> {FALSE}, protect |-> {28},
     reads |-> {<<496, 32>>}, programs |-> {<<240, 32>>}, pats |-> {1},
     erases |-> {<<0, 4096>>}, plans |-> {NoPlan}, initPlans |-> {NoPlan},
     track |-> TRUE, shorts |-> FALSE,
     tweaks |-> ModeTweaks \cup AddrTweaks \cup ResetTweaks \cup QerTweaks \cup MfrTweaks
                \cup HeaderTweaks \cup KindTweaks \cup MapTweaks,
     keep |-> FALSE]
\* One thread on chips that differ in the discovery headers and in the
\* soft-reset bits, with a transport failure or a wait that never sees the
\* chip ready anywhere in the discovery up to the soft reset.
CfgBoot ==
    [threads |-> {1}, parts |-> {"C"}, leftovers |-> {"zero"}, csels |-> {1},
     before |-> {<<>>}, busy |-> {FALSE}, protect |-> {0},
     reads |-> {<<496, 32>>}, programs |-> {<<240, 32>>}, pats |-> {1},
     erases |-> {<<0, 4096>>}, plans |-> {NoPlan},
     initPlans |-> Plans(MaxFailBoot, MaxNrdy),
     track |-> TRUE, shorts |-> FALSE,
     tweaks |-> {NoTweak} \cup ResetTweaks \cup HeaderTweaks, keep |-> FALSE]
\* One thread on a chip that is ready, every failure of an operation and
\* the early failures of init; while a call runs, what the call before it
\* returned is still known.
CfgDown ==
    [CfgLife EXCEPT !.keep = TRUE, !.busy = {FALSE},
                    !.initPlans = Plans(MaxFailBoot, MaxNrdy)]

Next ==
    \E t \in Threads :
        \/ CallInit(t) \/ InitLock(t) \/ InitBody(t) \/ InitExit(t)
        \/ CallDeinit(t) \/ DeinitLock(t) \/ DeinitBody(t) \/ DeinitRemove(t)
        \/ CallRead(t) \/ ReadLock(t) \/ ReadCmd(t)
        \/ CallProgram(t) \/ ProgChunk(t) \/ ProgLock(t) \/ ProgWren(t)
        \/ ProgCmd(t) \/ ProgReady(t)
        \/ CallErase(t) \/ EraseCheck(t) \/ EraseIter(t) \/ EraseLock(t)
        \/ EraseWren(t) \/ EraseCmd(t) \/ EraseReady(t)
\* The same without data transfer, and with other instances coming up.
NextReg ==
    \/ \E t \in Threads :
           \/ CallInit(t) \/ InitLock(t) \/ InitBody(t) \/ InitExit(t)
           \/ CallDeinit(t) \/ DeinitLock(t) \/ DeinitBody(t) \/ DeinitRemove(t)
    \/ \E csel \in Csels : ConstructOther(csel)

Init == InitWith(CfgConc)
InitLife == InitWith(CfgLife)
InitData == InitWith(CfgData)
InitReg == InitWith(CfgReg)
InitGeom == InitWith(CfgGeom)
InitSeq == InitWith(CfgSeq)
InitFair == InitWith(CfgFair)
InitTables == InitWith(CfgTables)
InitBoot == InitWith(CfgBoot)
InitDown == InitWith(CfgDown)

Spec == Init /\ [][Next]_vars
SpecLife == InitLife /\ [][Next]_vars
SpecData == InitData /\ [][Next]_vars
SpecReg == InitReg /\ [][NextReg]_vars
SpecGeom == InitGeom /\ [][Next]_vars
SpecSeq == InitSeq /\ [][Next]_vars
SpecTables == InitTables /\ [][Next]_vars
SpecBoot == InitBoot /\ [][Next]_vars
SpecDown == InitDown /\ [][Next]_vars
\* The places a thread can be at, and those where it waits for the mutex.
Pcs == {"idle", "hung", "fault", "init_lock", "init_body", "init_exit", "deinit_lock",
        "deinit_body", "deinit_remove", "read_lock", "read_cmd", "prog_chunk", "prog_lock",
        "prog_wren", "prog_cmd", "prog_ready", "erase_check", "erase_iter", "erase_lock",
        "erase_wren", "erase_cmd", "erase_ready"}
LockPcs == {"init_lock", "deinit_lock", "read_lock", "prog_lock", "erase_lock"}
\* Thread t is inside an operation and its next step can be taken: it is
\* not in a call that cannot return, and not waiting for a mutex that is held.
Runnable(t) ==
    /\ pc[t] \notin {"idle", "hung", "fault"}
    /\ pc[t] \in LockPcs => CanLock(t)
\* Thread t moves on to another place of its operation.
Advance(t) == Runnable(t) /\ \E q \in Pcs \ {pc[t]} : pc' = [pc EXCEPT ![t] = q]
\* The threads keep running: the scheduler lets a thread that is inside an
\* operation and can make its next step make it.
SpecFair == InitFair /\ [][Next]_vars /\ \A t \in Threads : WF_pc(Advance(t))

(***************************************************************************)
(* Concurrency and locking.                                                *)
(***************************************************************************)
\* The places of an operation where it holds the device mutex.
SectionPcs == {"init_body", "init_exit", "deinit_body", "read_cmd", "prog_wren", "prog_cmd",
               "prog_ready", "erase_wren", "erase_cmd", "erase_ready"}
\* Thread t is between two chunks of a program, or two steps of an erase:
\* it has put transactions on the bus and has more to come.
BetweenChunks(t) ==
    /\ pc[t] \in {"prog_chunk", "prog_lock", "erase_iter", "erase_lock"}
    /\ lv[t].io /\ lv[t].size > 0

C2_MutexReleased ==
    /\ \A t \in Threads : pc[t] \in {"idle", "deinit_remove"} => _mutex # t
    /\ ~mutex_err

\* A program has returned after its wait for the chip failed.
C2_Witness ==
    /\ last.op = "program" /\ last.ret = QSPIF_BD_ERROR_READY_FAILED
    /\ pc[1] = "idle" /\ _mutex = 0

\* C3 as stated: read, program and erase have transactions on the bus only
\* while the device is initialized.
C3_IoOnlyWhenInitialized ==
    \A i \in DOMAIN bus : bus[i].op \in {"read", "program", "erase"} => dev._is_initialized

(***************************************************************************)
(* The life cycle.                                                         *)
(***************************************************************************)
AllIdle == \A t \in Threads : pc[t] = "idle"

\* C4: only the init that finds the device not initialized has transactions
\* on the bus (the count is 1 and no earlier init is outstanding), only the
\* deinit that balances the last outstanding init has (it leaves the count 0
\* and the device not initialized), and between calls the device is
\* initialized exactly when successful inits are outstanding, the count
\* being their number.
C4_ReferenceCounted ==
    /\ dev._is_initialized => dev._init_ref_count >= 1
    /\ AllIdle => /\ dev._is_initialized <=> live > 0
                  /\ dev._is_initialized => dev._init_ref_count = live
    /\ (\E i \in DOMAIN bus : bus[i].op = "init") => dev._init_ref_count = 1 /\ live = 0
    /\ (\E i \in DOMAIN bus : bus[i].op = "deinit")
           => dev._init_ref_count = 0 /\ ~dev._is_initialized /\ live = 1
    /\ (last.op = "init" /\ ~last.io /\ last.ret = QSPIF_BD_ERROR_OK) => live > 1
    /\ (last.op = "deinit" /\ ~last.io /\ dev._is_initialized) => live > 0

\* After init, init, deinit the device is still initialized.
C4_Witness ==
    AllIdle /\ last.op = "deinit" /\ ~last.io /\ live = 1 /\ dev._is_initialized

\* C5: an init that returns anything but ok leaves the device not
\* initialized, and an init returns ok only with the device initialized: an
\* init after a failed one is not taken for a nested one.
C5_FailedInit ==
    /\ (last.op = "init" /\ last.ret # QSPIF_BD_ERROR_OK) => ~dev._is_initialized /\ live = 0
    /\ \A t \in Threads :
           (pc[t] = "init_exit" /\ lv[t].status = QSPIF_BD_ERROR_OK) => dev._is_initialized
    /\ (last.op = "init" /\ last.ret = QSPIF_BD_ERROR_OK) => dev._is_initialized

\* An init has failed while parsing, and has left the count at 1.
C5_Witness ==
    /\ last.op = "init" /\ last.ret = QSPIF_BD_ERROR_PARSING_FAILED
    /\ dev._init_ref_count = 1 /\ ~dev._is_initialized

\* The step in which thread t returns from a deinit that found the device
\* not initialized.
DeinitOfNotInitialized(t) ==
    pc[t] = "deinit_body" /\ ~dev._is_initialized /\ pc'[t] = "idle"

\* C6 as stated: deinit on a device that is not initialized returns ok,
\* issues no transport command and leaves the device state and the registry
\* unchanged.
C6_NothingChanges ==
    [][\A t \in Threads :
          DeinitOfNotInitialized(t)
              => /\ last'.ret = QSPIF_BD_ERROR_OK /\ ~last'.io
                 /\ dev' = dev /\ registry' = registry]_vars

\* C6, amended: deinit on a device that is not initialized returns ok,
\* issues no transport command, leaves the registry, the chip and the
\* transport format unchanged, and of the device state changes only the
\* reference count, which it sets to 0.
C6_OnlyCountReset ==
    [][\A t \in Threads :
          DeinitOfNotInitialized(t)
              => /\ last'.ret = QSPIF_BD_ERROR_OK /\ ~last'.io
                 /\ dev' = [dev EXCEPT !._init_ref_count = 0]
                 /\ registry' = registry /\ chip' = chip /\ qspi' = qspi]_vars

\* A deinit has found the device not initialized after init; deinit.
C6_Witness ==
    /\ last.op = "deinit" /\ last.ret = QSPIF_BD_ERROR_OK /\ ~last.io
    /\ ~dev._is_initialized /\ dev._init_ref_count = 0 /\ chip.sr1 = 0

(***************************************************************************)
(* The registry.                                                           *)
(***************************************************************************)
\* C7 as stated: no other instance whose construction status is ok has the
\* chip-select of the instance under study while its own status is ok.
C7_OneInstancePerCsel ==
    ~(dev._unique_device_status = 0
      /\ \E i \in DOMAIN others : others[i] = <<dev._csel, 0>>)

\* C8 as stated: init on an instance constructed with a chip-select that the
\* registry held returns device-not-unique, whatever the occupancy.
C8_DuplicateIsNotUnique ==
    (last.op = "init" /\ ctor.held) => last.ret = QSPIF_BD_ERROR_DEVICE_NOT_UNIQE

\* C8, amended: init on an instance constructed when the registry held the
\* maximum number of devices returns device-max-exceeded, whether or not the
\* registry held its chip-select; constructed with a chip-select the
\* registry held, and the registry not full, it returns device-not-unique;
\* constructed otherwise it returns neither.
C8_FullBeforeDuplicate ==
    last.op = "init"
        => IF ctor.full THEN last.ret = QSPIF_BD_ERROR_DEVICE_MAX_EXCEED
           ELSE IF ctor.held THEN last.ret = QSPIF_BD_ERROR_DEVICE_NOT_UNIQE
           ELSE last.ret \notin {QSPIF_BD_ERROR_DEVICE_MAX_EXCEED,
                                 QSPIF_BD_ERROR_DEVICE_NOT_UNIQE}

\* init has returned on an instance constructed with a chip-select the full
\* registry held.
C8_Witness ==
    last.op = "init" /\ ctor.held /\ ctor.full
    /\ last.ret = QSPIF_BD_ERROR_DEVICE_MAX_EXCEED

(***************************************************************************)
(* Data.                                                                   *)
(***************************************************************************)
\* The latest operation is a read that returned ok, of the range the latest
\* program or erase (op) returned ok for, on the initialized device.
ReadBackOf(op) ==
    /\ AllIdle /\ dev._is_initialized
    /\ last.op = "read" /\ last.ret = QSPIF_BD_ERROR_OK
    /\ lastw.op = op /\ last.addr = lastw.addr /\ last.size = lastw.size
InRange(p) == p >= lastw.addr /\ p < lastw.addr + lastw.size

\* C9 as stated: a read of the range a program returned ok for returns the
\* bytes of the buffer programmed.
C9_ReadReturnsProgrammed ==
    ReadBackOf("program")
        => \A p \in Probes : InRange(p) => last.rx[p] = BufByte(lastw.pat, p - lastw.addr)

\* C10 as stated: a read of the range an erase returned ok for returns
\* erased bytes only.
C10_ReadReturnsErased ==
    ReadBackOf("erase") => \A p \in Probes : InRange(p) => last.rx[p] = get_erase_value

(***************************************************************************)
(* Erase: validation.                                                      *)
(***************************************************************************)
\* The region an address lies in by the boundaries of the regions, and the
\* erase granularity there: the size of the first erase type of that
\* region, 0 when it has none.
RegionOf(addr) ==
    CHOOSE i \in 0..(dev._regions_count - 1) :
        /\ addr <= dev._region_high_boundary[i]
        /\ \A j \in 0..(i - 1) : addr > dev._region_high_boundary[j]
GranularityAt(addr) ==
    LET t == FirstType(dev._region_erase_types_bitfield[RegionOf(addr)])
    IN IF t = 4 THEN 0 ELSE dev._erase_type_size_arr[t]
Misaligned(x, addr) == GranularityAt(addr) # 0 /\ x % GranularityAt(addr) # 0
\* The erase thread t is about to validate is outside the device, or starts
\* or ends off the erase granularity.
BadEraseParams(t) ==
    \/ lv[t].addr + lv[t].size > dev._device_size_bytes
    \/ Misaligned(lv[t].addr, lv[t].addr)
    \/ Misaligned(lv[t].addr + lv[t].size, lv[t].addr + lv[t].size - 1)

\* C11 as stated: on the initialized device an erase outside the device, or
\* off the erase granularity of the region of its first or last byte,
\* returns invalid-erase-params with no transaction, without the mutex and
\* with the driver state as it was.
C11_BadEraseRejected ==
    [][\A t \in Threads :
          (pc[t] = "erase_check" /\ dev._is_initialized /\ BadEraseParams(t))
              => /\ pc'[t] = "idle" /\ last'.op = "erase"
                 /\ last'.ret = QSPIF_BD_ERROR_INVALID_ERASE_PARAMS
                 /\ bus' = <<>> /\ ~last'.io
                 /\ dev' = dev /\ _mutex' = _mutex /\ qspi' = qspi /\ chip' = chip]_vars

(***************************************************************************)
(* Program: the split into pages.                                          *)
(***************************************************************************)
MinOf(a, b) == IF a < b THEN a ELSE b

\* C12: with a page size P, the chunk a program is about to send is
\* min(size left, P - addr mod P), at least 1 and at most P, ends inside the
\* page it starts in, starts where the chunks before ended (the first at the
\* address of the call) and is what goes out with the program instruction;
\* a program that returns ok has sent chunks that add up to the size of the
\* call.
C12_PageSplit ==
    [][\A t \in Threads :
          LET P == dev._page_size_bytes
              l == lv[t]
          IN /\ (pc[t] = "prog_cmd" /\ P > 0)
                    => /\ l.chunk = MinOf(l.size, P - (l.addr % P))
                       /\ l.chunk >= 1 /\ l.chunk <= P
                       /\ (l.addr % P) + l.chunk <= P
                       /\ l.addr = l.a0 + l.off /\ l.size = l.n0 - l.off
                       /\ \A i \in DOMAIN bus' :
                              bus'[i].inst = dev._prog_instruction
                                  => bus'[i].addr = l.addr /\ bus'[i].len = l.chunk
             /\ (pc[t] = "prog_chunk" /\ pc'[t] = "idle" /\ last'.ret = QSPIF_BD_ERROR_OK)
                    => l.off = l.n0 /\ l.size = 0]_vars

\* The third chunk of program(buf, 0x1F0, 600), a whole page, is about to be
\* sent.
C12_Witness ==
    /\ pc[1] = "prog_cmd" /\ dev._is_initialized
    /\ lv[1].a0 = 496 /\ lv[1].n0 = 600 /\ lv[1].off = 272
    /\ lv[1].addr = 768 /\ lv[1].chunk = dev._page_size_bytes

(***************************************************************************)
(* Addresses of 2^24 and above with 3-byte addressing.                     *)
(***************************************************************************)
\* init negotiated 3-byte addressing and recorded no instruction for an
\* extended-address register.
ThreeByteOnly ==
    /\ dev._is_initialized /\ dev._address_size = QSPI_CFG_ADDR_SIZE_24
    /\ dev._4byte_msb_reg_write_inst = QSPI_NO_INST

\* C13 as stated: with 3-byte addressing only, a read, program or erase at
\* an address of 2^24 or above returns device-error.
C13_HighAddressIsDeviceError ==
    (ThreeByteOnly /\ last.op \in {"read", "program", "erase"} /\ last.addr >= 16777216)
        => last.ret = QSPIF_BD_ERROR_DEVICE_ERROR

\* C13, amended: with 3-byte addressing only, a read, program or erase at an
\* address of 2^24 or above never returns ok; the step that would send the
\* read, program or erase instruction sends nothing and ends the operation
\* with device-error; an erase ends before that, with invalid-erase-params
\* and nothing sent, exactly when its range is outside the device or off
\* the erase granularity.
C13_HighAddressRefused ==
    [][\A t \in Threads :
          (ThreeByteOnly /\ lv[t].op \in {"read", "program", "erase"} /\ lv[t].a0 >= 16777216)
              => /\ pc[t] \in {"read_cmd", "prog_cmd", "erase_cmd"}
                        => /\ bus' = <<>> /\ pc'[t] = "idle"
                           /\ last'.ret = QSPIF_BD_ERROR_DEVICE_ERROR
                 /\ pc[t] = "erase_check"
                        => IF BadEraseParams(t)
                           THEN /\ pc'[t] = "idle" /\ bus' = <<>>
                                /\ last'.ret = QSPIF_BD_ERROR_INVALID_ERASE_PARAMS
                           ELSE pc'[t] = "erase_iter"
                 /\ (pc[t] # "idle" /\ pc'[t] = "idle") => last'.ret # QSPIF_BD_ERROR_OK]_vars

\* An erase inside the 64 KiB region of the 32 MiB part that is addressed
\* with 3 bytes has returned device-error.
C13_Witness ==
    /\ ThreeByteOnly /\ dev._device_size_bytes > 16777216
    /\ last.op = "erase" /\ last.addr = 16777216 /\ last.io
    /\ last.ret = QSPIF_BD_ERROR_DEVICE_ERROR

(***************************************************************************)
(* Termination.                                                            *)
(***************************************************************************)
\* C14 as stated: every call of init, deinit, read, program or erase
\* returns.
C14_EveryOperationReturns ==
    \A t \in Threads : (pc[t] # "idle") ~> (pc[t] = "idle")

\* C15 as stated: a busy-poll that keeps reading WIP set stops at the retry
\* cap and reports not-ready, so no operation is left polling: on the part
\* with 3-byte addresses, where nothing else can keep a call from returning,
\* no thread is in a call that cannot return.
C15_BusyPollGivesUp ==
    \A t \in Threads :
        (dev._4byte_msb_reg_write_inst = QSPI_NO_INST) => pc[t] # "hung"

\* A transport call made by the step of thread t failed.
TransportCallFailed == \E i \in DOMAIN bus' : ~bus'[i].ok
\* The step ends the operation of thread t with a status that is not ok: it
\* returns one, or it has set the one its exit path returns.
EndsNotOk(t) ==
    \/ pc'[t] = "idle" /\ last'.ret # QSPIF_BD_ERROR_OK
    \/ pc'[t] \in {"init_exit", "deinit_remove"} /\ lv'[t].status # QSPIF_BD_ERROR_OK

\* C16 as stated: a public operation in which a transport call fails
\* returns a non-ok status, without going on to further transport calls.
C16_TransportFailureFailsOperation ==
    [][\A t \in Threads : (pc[t] # "idle" /\ pc'[t] # pc[t] /\ TransportCallFailed)
                              => EndsNotOk(t)]_vars

\* The addresses inside the device at which some erase of the environment
\* starts.
GeomAddrs == {e[1] : e \in cfg.erases} \cap (0..(dev._device_size_bytes - 1))
HasEraseType(addr) == FirstType(dev._region_erase_types_bitfield[RegionOf(addr)]) # 4

\* C17 as stated: on the initialized device get_erase_size(addr) is at least
\* 1 exactly when the region of addr supports some erase type, and it is then
\* the size of the lowest-indexed type that region supports.
C17_EraseSizeOfRegion ==
    dev._is_initialized =>
        \A addr \in GeomAddrs :
            /\ (get_erase_size(dev, addr) >= 1) <=> HasEraseType(addr)
            /\ HasEraseType(addr) => get_erase_size(dev, addr) = GranularityAt(addr)

\* C18 as stated: an erase that passed validation changes no byte outside
\* the range [a, a + n) it was called with: the step that sends an erase
\* instruction leaves every probed byte outside the range as it was.
C18_EraseStaysInRange ==
    [][\A t \in Threads :
          pc[t] = "erase_cmd" =>
              \A p \in Probes :
                  (p < lv[t].a0 \/ p >= lv[t].a0 + lv[t].n0) => chip'.mem[p] = chip.mem[p]]_vars

\* Erase type i can be used for the next step of an erase at addr with size
\* bytes left: the region of addr supports it, its size divides addr and is
\* at most size, and its block ends at or before the region's high boundary.
TypeFits(i, addr, size) ==
    LET tsize == dev._erase_type_size_arr[i]
    IN /\ BitIsSet(dev._region_erase_types_bitfield[RegionOf(addr)], Pow2(i))
       /\ tsize > 0
       /\ addr % tsize = 0
       /\ tsize <= size
       /\ addr + tsize - 1 <= dev._region_high_boundary[RegionOf(addr)]

\* C19 as stated: the erase instruction about to be sent is that of the
\* largest erase type that fits the current address, the remaining size and
\* the region.
C19_LargestFittingType ==
    \A t \in Threads :
        pc[t] = "erase_cmd" =>
            /\ TypeFits(lv[t].type, lv[t].addr, lv[t].size)
            /\ \A i \in 0..3 :
                   TypeFits(i, lv[t].addr, lv[t].size)
                       => dev._erase_type_size_arr[i] <= dev._erase_type_size_arr[lv[t].type]

\* The size of the erase type thread t has chosen for its next step.
ChosenSize(t) == dev._erase_type_size_arr[lv[t].type]
Divides(g, x) == g > 0 /\ x % g = 0

\* C20 as stated: a step of erase that sends its instruction leaves less to
\* erase and never less than 0, the granularity of the type it used divides
\* the address and the size it started from, and once the address has passed
\* the high boundary of the region the next region and its bitmap are in use;
\* an erase that returns ok has nothing left to erase.
C20_EraseDecomposition ==
    [][\A t \in Threads :
          /\ (pc[t] = "erase_cmd" /\ pc'[t] = "erase_ready") =>
                 /\ lv'[t].size < lv[t].size
                 /\ lv'[t].size >= 0
                 /\ Divides(ChosenSize(t), lv[t].addr)
                 /\ Divides(ChosenSize(t), lv[t].size)
                 /\ (lv'[t].size > 0 /\ lv'[t].addr > dev._region_high_boundary[RegionOf(lv[t].addr)])
                        => /\ lv'[t].region = RegionOf(lv[t].addr) + 1
                           /\ lv'[t].bitfield = dev._region_erase_types_bitfield[lv'[t].region]
          /\ (pc[t] = "erase_iter" /\ pc'[t] = "idle" /\ last'.ret = QSPIF_BD_ERROR_OK)
                 => lv[t].size = 0]_vars

\* The erase instructions the step just taken has sent, as <<instruction,
\* address>> pairs.
EraseSent == {<<bus'[i].inst, bus'[i].addr>> : i \in {j \in DOMAIN bus' : bus'[j].inst \in EraseInsts}}
\* Thread t runs erase(0x8000, 0x11000) on the single-region part with the
\* 4 KiB, 32 KiB and 64 KiB erase types.
ExampleErase(t) ==
    /\ lv[t].op = "erase" /\ lv[t].a0 = 32768 /\ lv[t].n0 = 69632
    /\ chip.part = "A" /\ dev._is_initialized

\* C21 as stated: erase(0x8000, 0x11000) sends 0xD8 at 0x8000 first, then
\* 0x52 at 0x18000, then 0x20 at 0x20000, and nothing else: its first erase
\* instruction is the first of these, every one it sends is one of the three,
\* and it returns ok only after the last.
C21_ExampleEraseSequence ==
    [][\A t \in Threads :
          (ExampleErase(t) /\ pc[t] = "erase_cmd" /\ pc'[t] = "erase_ready") =>
              /\ EraseSent \subseteq {<<216, 32768>>, <<82, 98304>>, <<32, 131072>>}
              /\ lv[t].addr = lv[t].a0 => EraseSent = {<<216, 32768>>}
              /\ lv'[t].size = 0 => EraseSent = {<<32, 131072>>}]_vars

\* The instructions the step just taken has put on the bus, in order.
InstsSent == [i \in DOMAIN bus' |-> bus'[i].inst]
Sent(inst) == \E i \in DOMAIN bus' : bus'[i].inst = inst
\* The program or erase instruction thread t is about to send.
ArmedInst(t) ==
    IF lv[t].op = "program" THEN dev._prog_instruction ELSE dev._erase_type_inst_arr[lv[t].type]
WrenPcs == {"prog_wren", "erase_wren"}
CmdPcs == {"prog_cmd", "erase_cmd"}
ReadyPcs == {"prog_ready", "erase_ready"}
ReturnsWith(t, ret) == pc'[t] = "idle" /\ last'.ret = ret

\* C22: in program and erase, the write-enable step starts with WREN, puts
\* no program or erase instruction on the bus, and goes on to the command
\* only after a read of status register 1 that shows WEL set, returning
\* write-enable-failed otherwise; the command step sends the program or
\* erase instruction and nothing else, and returns device-error if the
\* transport fails or reports another byte count than the chunk; the wait
\* that follows sends status reads only, ends with WIP clear before the next
\* chunk is computed, and returns ready-failed if it gives up.
C22_CommandOrder ==
    [][\A t \in Threads :
          /\ (pc[t] \in WrenPcs /\ pc'[t] # pc[t]) =>
                 /\ bus' # <<>> /\ bus'[1].inst = QSPIF_WREN
                 /\ \A i \in DOMAIN bus' : bus'[i].inst \in {QSPIF_WREN, QSPIF_INST_RSR1}
                 /\ \/ /\ pc'[t] \in CmdPcs
                       /\ bus'[Len(bus')].inst = QSPIF_INST_RSR1 /\ bus'[Len(bus')].ok
                       /\ chip'.wel /\ ~chip'.wip
                    \/ ReturnsWith(t, QSPIF_BD_ERROR_WREN_FAILED)
                    \/ pc'[t] = "hung"
          /\ (pc[t] \in CmdPcs /\ pc'[t] # pc[t]) =>
                 /\ InstsSent = <<ArmedInst(t)>>
                 /\ \/ /\ pc'[t] \in ReadyPcs
                       /\ bus'[1].ok
                       /\ pc[t] = "prog_cmd" => bus'[1].len = lv[t].chunk
                    \/ /\ ReturnsWith(t, QSPIF_BD_ERROR_DEVICE_ERROR)
                       /\ ~bus'[1].ok \/ bus'[1].len # lv[t].chunk
          /\ (pc[t] \in ReadyPcs /\ pc'[t] # pc[t]) =>
                 /\ \A i \in DOMAIN bus' : bus'[i].inst = QSPIF_INST_RSR1
                 /\ \/ pc'[t] \in {"prog_chunk", "erase_iter"} /\ ~chip'.wip
                    \/ ReturnsWith(t, QSPIF_BD_ERROR_READY_FAILED)
                    \/ pc'[t] = "hung"
          /\ (pc[t] \notin WrenPcs \cup CmdPcs /\ lv[t].op \in {"program", "erase"}) =>
                 ~Sent(QSPIF_WREN) /\ ~Sent(ArmedInst(t))]_vars

\* A program of two chunks has sent its first chunk and waited, and now
\* sends the second; the chip has accepted the write-enable.
C22_Witness ==
    /\ pc[1] = "prog_cmd" /\ lv[1].a0 = 240 /\ lv[1].off = 16
    /\ chip.wel /\ ~chip.wip
    /\ bus # <<>> /\ bus[1].inst = QSPIF_WREN

\* The extended-address-register mode was negotiated.
ExtAddrRegMode == dev._4byte_msb_reg_write_inst # QSPI_NO_INST

\* C23 as stated: in extended-address-register mode a command is sent after
\* a write-enable and one write of the register, so the call that sends it
\* gets as far as the transport and returns: no thread is left inside a call
\* that cannot return.
C23_ExtAddrRegisterWritten ==
    \A t \in Threads : ExtAddrRegMode => pc[t] # "hung"

\* The places of a program chunk or an erase step from its write-enable to
\* the end of its wait.
ChunkPcs == WrenPcs \cup CmdPcs \cup ReadyPcs

\* C24: a thread that is anywhere from the write-enable of a program chunk
\* or an erase step to the end of its wait holds the device mutex, and a
\* step another thread takes meanwhile puts no transaction on the bus.
C24_ChunkUnderMutex ==
    [][\A t \in Threads :
          pc[t] \in ChunkPcs =>
              /\ _mutex = t
              /\ \A u \in Threads \ {t} : pc'[u] # pc[u] => bus' = <<>>]_vars

\* A thread has sent the write-enable of an erase step and is about to send
\* the erase instruction, while the other thread has called program and
\* waits for the mutex.
C24_Witness ==
    /\ pc[1] = "erase_cmd" /\ chip.wel /\ _mutex = 1
    /\ pc[2] = "prog_lock"

\* A transport format with instruction, address and data on one line each
\* and the given number of dummy cycles.
SingleLines(f, dummy) ==
    /\ f.inst_width = QSPI_CFG_BUS_SINGLE /\ f.address_width = QSPI_CFG_BUS_SINGLE
    /\ f.data_width = QSPI_CFG_BUS_SINGLE /\ f.dummy = dummy
\* The read profile the device has negotiated.
ReadProfile(f) ==
    /\ f.inst_width = dev._inst_width /\ f.address_width = dev._address_width
    /\ f.data_width = dev._data_width /\ f.dummy = dev._dummy_and_mode_cycles

\* C25: between the steps of the operations the transport format is 1-1-1
\* with no dummy cycles; the memory read of a read is sent in the negotiated
\* read profile, a discovery read in 1-1-1 with its dummy cycles, and every
\* other transaction in the default format, whether or not the transport
\* carried it out.
C25_FormatRestored ==
    /\ SingleLines(qspi, 0)
    /\ \A i \in DOMAIN bus :
           IF bus[i].inst = QSPIF_INST_RSFDP THEN SingleLines(bus[i].fmt, QSPIF_RSFDP_DUMMY_CYCLES)
           ELSE IF bus[i].op = "read" THEN ReadProfile(bus[i].fmt)
           ELSE SingleLines(bus[i].fmt, 0)

\* A read in a read profile of four data lines has failed in the transport
\* and returned.
C25_Witness ==
    /\ last.op = "read" /\ last.ret = QSPIF_BD_ERROR_DEVICE_ERROR /\ last.io
    /\ dev._is_initialized /\ dev._data_width = QSPI_CFG_BUS_QUAD
    /\ bus # <<>> /\ ~bus[1].ok /\ bus[1].fmt.data_width = QSPI_CFG_BUS_QUAD
    /\ pc[1] = "idle"

\* C26 as stated: on the initialized device the region lookup gives, for an
\* address inside the device, the region whose range of addresses contains
\* it, region 0 included.
C26_RegionFound ==
    dev._is_initialized =>
        \A addr \in GeomAddrs : _utils_find_addr_region(dev, addr) = RegionOf(addr)

\* Addresses at and above the end of the device.
BeyondAddrs == {dev._device_size_bytes, dev._device_size_bytes + 1, dev._device_size_bytes + 4096}

\* C27 as stated: on the initialized device the region lookup gives
\* not-found for an address at or above the device size.
C27_BeyondNotFound ==
    dev._is_initialized =>
        \A addr \in BeyondAddrs : _utils_find_addr_region(dev, addr) = -1

\* The first address of region i: its high boundary less its size, plus 1.
RegionLow(i) == dev._region_high_boundary[i] - dev._region_size_bytes[i] + 1

\* C28 as stated: on the initialized device region 0 starts at address 0,
\* every further region starts right after the high boundary of the one
\* before, and the high boundary of the last region is the device size
\* less 1.
C28_RegionsCoverDevice ==
    dev._is_initialized =>
        /\ dev._regions_count >= 1
        /\ RegionLow(0) = 0
        /\ \A i \in 1..(dev._regions_count - 1) :
               RegionLow(i) = dev._region_high_boundary[i - 1] + 1
        /\ dev._region_high_boundary[dev._regions_count - 1] = dev._device_size_bytes - 1

\* The erase types every region of the device supports, as a bitmap.
RECURSIVE CommonTypes(_)
CommonTypes(n) ==
    IF n = 0 THEN ERASE_BITMASK_ALL
    ELSE BitAnd(CommonTypes(n - 1), dev._region_erase_types_bitfield[n - 1])
LowestCommonType == FirstType(CommonTypes(dev._regions_count))

\* C29: on a device initialized from a sector map, the minimum common erase
\* size is the size of the lowest-indexed erase type that all regions
\* support, and 0 when they have none in common.
C29_MinCommonEraseSize ==
    (dev._is_initialized /\ dev._regions_count > 1) =>
        dev._min_common_erase_size =
            IF LowestCommonType = 4 THEN 0 ELSE dev._erase_type_size_arr[LowestCommonType]

\* The device is initialized from a sector map whose two regions have no
\* erase type in common.
C29_Witness ==
    /\ dev._is_initialized /\ dev._regions_count = 2
    /\ dev._region_erase_types_bitfield[0] = 1 /\ dev._region_erase_types_bitfield[1] = 4
    /\ dev._min_common_erase_size = 0
    /\ pc[1] = "idle" /\ last.op = "init" /\ last.ret = QSPIF_BD_ERROR_OK

\* C30 as stated: the address an erase instruction is sent with is the
\* current address of the erase with its low 12 bits cleared, bits 24 and
\* above included.
C30_EraseAddressSent ==
    [][\A t \in Threads :
          pc[t] = "erase_cmd" =>
              \A e \in EraseSent : e[2] = lv[t].addr - (lv[t].addr % 4096)]_vars

(***************************************************************************)
(* Claims about the table parsers (C31..C39).  ChipTable is the Basic      *)
(* Parameters table the chip answers with; InitRan holds right after the   *)
(* discovery of an init call returned status ret.                          *)
(***************************************************************************)
ChipTable == ChipSfdpData(chip, 48, 64)
InitRan(t, ret) == pc[t] = "init_exit" /\ Len(bus) > 0 /\ lv[t].status = ret
Negotiated ==
    <<dev._read_instruction, dev._address_width, dev._data_width, dev._dummy_and_mode_cycles>>
\* Instruction, address lines, data lines and cycles of the read mode whose
\* instruction is in byte b of the table.
ModeAt(b, aw, dw) == <<ChipTable[b], aw, dw, DummyCycles(ChipTable[b - 1])>>
\* The supported read mode of highest preference.
BestMode ==
    IF BitIsSet(ChipTable[16], 16) THEN ModeAt(27, 4, 4)
    ELSE IF BitIsSet(ChipTable[2], 32) THEN ModeAt(9, 4, 4)
    ELSE IF BitIsSet(ChipTable[2], 64) THEN ModeAt(11, 1, 4)
    ELSE IF BitIsSet(ChipTable[16], 1) THEN ModeAt(23, 2, 2)
    ELSE IF BitIsSet(ChipTable[2], 16) THEN ModeAt(15, 2, 2)
    ELSE IF BitIsSet(ChipTable[2], 1) THEN ModeAt(13, 1, 2)
    ELSE <<3, 1, 1, 0>>

\* C31 as stated: after a successful init, read instruction, address width,
\* data width and dummy+mode cycles are those of the supported read mode of
\* highest preference (4-4-4, 1-4-4, 1-1-4, 2-2-2, 1-2-2, 1-1-2, else 1-1-1).
C31_BestReadMode ==
    \A t \in Threads : InitRan(t, QSPIF_BD_ERROR_OK) => Negotiated = BestMode


\* The instructions of the transactions of the step just taken, in order.
BusInsts == [i \in 1..Len(bus) |-> bus[i].inst]
IssuedAt(inst) == {i \in 1..Len(bus) : bus[i].inst = inst}
Issued(inst) == IssuedAt(inst) # {}

\* C32 as stated: when byte 16 bit 4 of the Basic table is set, a successful
\* init ends with the 4-4-4 read mode and has sent the 4-4-4 enable sequence
\* (38h on the chips used) after the status-register write of the
\* quad-enable procedure.
C32_QpiEnabled ==
    \A t \in Threads :
        (InitRan(t, QSPIF_BD_ERROR_OK) /\ BitIsSet(ChipTable[16], 16)) =>
            /\ Negotiated = ModeAt(27, 4, 4)
            /\ \E i \in IssuedAt(QSPIF_INST_WSR1) : \E j \in IssuedAt(56) : i < j


\* Transaction j of the step follows a write-enable: WREN, then nothing but
\* status reads up to j.
WrenBefore(j) ==
    \E i \in 1..(j - 1) : bus[i].inst = QSPIF_WREN
                          /\ \A k \in (i + 1)..(j - 1) : bus[k].inst = QSPIF_INST_RSR1
\* The first applicable bit of byte 63 in the order 6, 0, 1, 4, 3, 2; 7 when
\* none of them is set.
FirstAddrBit ==
    LET set == {b \in {6, 0, 1, 4, 3, 2} : BitIsSet(ChipTable[63], Pow2(b))}
        rank == (6 :> 1) @@ (0 :> 2) @@ (1 :> 3) @@ (4 :> 4) @@ (3 :> 5) @@ (2 :> 6)
    IN IF set = {} THEN 7 ELSE CHOOSE b \in set : \A c \in set : rank[b] <= rank[c]
\* The commands of the 4-byte-addressing step seen on the bus: B7h, B5h,
\* B1h, 17h.
AddrInsts == {bus[i].inst : i \in 1..Len(bus)} \cap {183, 181, 177, 23}
\* The 4-byte-addressing step of an init call of thread t has run: init got
\* through, or stopped in the first command after the step.
AddressingRan(t) ==
    \/ InitRan(t, QSPIF_BD_ERROR_OK)
    \/ pc[t] = "hung" /\ lv[t].op = "init" /\ Issued(QSPIF_INST_WSR1)

\* C33: the 4-byte-addressing step acts on the first applicable bit of byte
\* 63 in the order 6, 0, 1, 4, 3, 2 and on that bit only: bit 6, address size
\* 32 and no command; bit 0, B7h without write-enable; bit 1, write-enable
\* then B7h; bit 4, B5h read, write-enable, B1h written with bit 0 set; bit
\* 3, 17h written with 80h; bit 2, address size 24 and C5h recorded, no
\* command; none, address size 24 and no command.
C33_FourByteNegotiation ==
    \A t \in Threads :
        AddressingRan(t) =>
            CASE FirstAddrBit = 6 ->
                     dev._address_size = QSPI_CFG_ADDR_SIZE_32 /\ AddrInsts = {}
              [] FirstAddrBit = 0 ->
                     /\ dev._address_size = QSPI_CFG_ADDR_SIZE_32 /\ AddrInsts = {183}
                     /\ \A j \in IssuedAt(183) : ~WrenBefore(j)
              [] FirstAddrBit = 1 ->
                     /\ dev._address_size = QSPI_CFG_ADDR_SIZE_32 /\ AddrInsts = {183}
                     /\ \A j \in IssuedAt(183) : WrenBefore(j)
              [] FirstAddrBit = 4 ->
                     /\ dev._address_size = QSPI_CFG_ADDR_SIZE_32 /\ AddrInsts = {181, 177}
                     /\ \A j \in IssuedAt(177) :
                           WrenBefore(j) /\ \E i \in IssuedAt(181) : i < j
                     /\ chip.conf = 1
              [] FirstAddrBit = 3 ->
                     /\ dev._address_size = QSPI_CFG_ADDR_SIZE_32 /\ AddrInsts = {23}
                     /\ chip.bank = 128
              [] FirstAddrBit = 2 ->
                     /\ dev._address_size = QSPI_CFG_ADDR_SIZE_24 /\ AddrInsts = {}
                     /\ dev._4byte_msb_reg_write_inst = 197
              [] OTHER ->
                     /\ dev._address_size = QSPI_CFG_ADDR_SIZE_24 /\ AddrInsts = {}
                     /\ dev._4byte_msb_reg_write_inst = QSPI_NO_INST

\* Init got through on a chip whose byte 63 has bits 4 and 3 set: the
\* configuration register was written, the bank register was not.
C33_Witness ==
    /\ InitRan(1, QSPIF_BD_ERROR_OK) /\ ChipTable[63] = 24
    /\ Issued(177) /\ chip.conf = 1 /\ chip.bank = 0
    /\ dev._address_size = QSPI_CFG_ADDR_SIZE_32

\* The last read of status register 2 before transaction j of the step; the
\* transaction before it is the read of status register 1 that
\* _qspi_read_status_registers made.
LastRead2(j) ==
    LET reads == {i \in 1..(j - 1) : bus[i].inst \in {53, 63}}
    IN CHOOSE i \in reads : \A k \in reads : k <= i
\* The status-register writes of the step: the transactions with
\* instruction 01h, in order.
RegisterWrites == IssuedAt(QSPIF_INST_WSR1)
\* The values init hands to the register write at transaction j: in the
\* quad-enable procedure the registers read with the Quad Enable bit set, in
\* the block-protection step (after the JEDEC id was read) status 1 with all
\* but WIP and WEL cleared and status 2 as read.
WriteValues(j) ==
    LET r1 == bus[LastRead2(j) - 1].rx
        r2 == bus[LastRead2(j)].rx
        setup == StatusRegSetup(QerValue(ChipTable))
    IN IF \E i \in IssuedAt(QSPIF_INST_RDID) : i < j
       THEN <<BitAnd(r1, QSPIF_STATUS_BIT_WIP + QSPIF_STATUS_BIT_WEL), r2>>
       ELSE <<BitOr(r1, setup[1]), BitOr(r2, setup[2])>>
\* The writes of status register 2 that follow transaction j.
Register2Writes(j) ==
    {k \in (j + 1)..Len(bus) : bus[k].inst = dev._write_status_reg_2_inst}

\* C34 as stated: every status-register write of init follows a
\* write-enable; with no status-2 write instruction recorded it is one 01h
\* with the status-1 and status-2 values as its two data bytes, otherwise
\* 01h with the status-1 value and then, after another write-enable, the
\* recorded instruction with the status-2 value as its data byte.
C34_StatusRegistersWritten ==
    \A t \in Threads :
        InitRan(t, QSPIF_BD_ERROR_OK) =>
            \A j \in RegisterWrites :
                /\ WrenBefore(j)
                /\ IF dev._write_status_reg_2_inst = QSPI_NO_INST
                   THEN bus[j].tx = WriteValues(j)
                   ELSE /\ bus[j].tx = <<WriteValues(j)[1]>>
                        /\ Register2Writes(j) # {}
                        /\ LET k == CHOOSE k \in Register2Writes(j) :
                                        \A m \in Register2Writes(j) : k <= m
                           IN WrenBefore(k) /\ bus[k].tx = <<WriteValues(j)[2]>>

\* The discovery of an init call of thread t has run up to the soft reset:
\* the Basic Parameters table was read.
ResetReached(t) ==
    /\ pc[t] \in {"init_exit", "hung"} /\ lv[t].op = "init"
    /\ \E i \in IssuedAt(QSPIF_INST_RSFDP) : bus[i].addr = 48 /\ bus[i].ok
\* The reset commands that were carried out.
ResetsDone == {k \in IssuedAt(240) \cup IssuedAt(153) : bus[k].ok}
\* A status read that was carried out and shows the chip ready.
ReadyPoll(i) ==
    bus[i].inst = QSPIF_INST_RSR1 /\ bus[i].ok /\ ~BitIsSet(bus[i].rx, QSPIF_STATUS_BIT_WIP)
\* After reset command k nothing but status reads goes out until one of them
\* shows the chip ready.
PolledToReady(k) ==
    \A j \in (k + 1)..Len(bus) :
        bus[j].inst # QSPIF_INST_RSR1 => \E i \in (k + 1)..(j - 1) : ReadyPoll(i)
ResetBits == ChipTable[QSPIF_BASIC_PARAM_TABLE_SOFT_RESET_BYTE]

\* C35 as stated: with bit 3 of byte 61 set init issues F0h; otherwise with
\* bit 4 set it issues 66h and then 99h, and 99h only right after a 66h that
\* was carried out; otherwise it sends no reset and fails with
\* parsing-failed; after a reset command nothing but status reads goes out
\* until the chip is seen ready.
C35_SoftReset ==
    \A t \in Threads :
        ResetReached(t) =>
            /\ IF BitIsSet(ResetBits, SOFT_RESET_RESET_INST_BITMASK)
               THEN Issued(240) /\ ~Issued(102) /\ ~Issued(153)
               ELSE IF BitIsSet(ResetBits, SOFT_RESET_ENABLE_AND_RESET_INST_BITMASK)
               THEN /\ Issued(102) /\ ~Issued(240)
                    /\ \A i \in IssuedAt(102) : bus[i].ok => bus[i + 1].inst = 153
               ELSE /\ ~Issued(240) /\ ~Issued(102) /\ ~Issued(153)
                    /\ pc[t] = "init_exit" /\ lv[t].status = QSPIF_BD_ERROR_PARSING_FAILED
            /\ \A j \in IssuedAt(153) : j > 1 /\ bus[j - 1].inst = 102 /\ bus[j - 1].ok
            /\ \A k \in ResetsDone : PolledToReady(k)


\* Init got through on a chip with bit 4 only: 66h and 99h went out, the
\* first status read after 99h showed the chip busy, and the Quad Enable
\* procedure followed.
C35_Witness ==
    /\ InitRan(1, QSPIF_BD_ERROR_OK) /\ ResetBits = 16
    /\ \E k \in IssuedAt(153) :
          /\ bus[k - 1].inst = 102 /\ bus[k].ok
          /\ BitIsSet(bus[k + 1].rx, QSPIF_STATUS_BIT_WIP)
          /\ \E j \in IssuedAt(QSPIF_INST_WSR1) : j > k

\* The transaction of the step that read the JEDEC id.
IdRead == CHOOSE r \in IssuedAt(QSPIF_INST_RDID) : TRUE
\* After the id was read, the two status registers were read, and written
\* back with all bits of status 1 but WIP and WEL cleared.
WrittenBack ==
    LET r == IdRead
        cleared == BitAnd(bus[r + 1].rx, QSPIF_STATUS_BIT_WIP + QSPIF_STATUS_BIT_WEL)
    IN /\ bus[r + 1].inst = QSPIF_INST_RSR1
       /\ bus[r + 2].inst = dev._read_status_reg_2_inst
       /\ \E j \in RegisterWrites :
             /\ j > r
             /\ IF dev._write_status_reg_2_inst = QSPI_NO_INST
                THEN bus[j].tx = <<cleared, bus[r + 2].rx>>
                ELSE /\ bus[j].tx = <<cleared>>
                     /\ \E k \in Register2Writes(j) : bus[k].tx = <<bus[r + 2].rx>>

\* C36 as stated: in the block-protection step of a successful init, for
\* manufacturer BFh a write-enable and then 98h go out and no status
\* register is written; for any other manufacturer the two status registers
\* are read and written back with every bit of status 1 but WIP and WEL
\* cleared, and 98h never goes out.
C36_BlockProtection ==
    \A t \in Threads :
        InitRan(t, QSPIF_BD_ERROR_OK) =>
            IF ChipJedecId(chip)[1] = 191
            THEN /\ \E j \in IssuedAt(QSPIF_INST_ULBPR) : j > IdRead /\ WrenBefore(j)
                 /\ \A j \in (IdRead + 1)..Len(bus) :
                       bus[j].inst \notin {QSPIF_INST_WSR1, 62}
            ELSE ~Issued(QSPIF_INST_ULBPR) /\ WrittenBack

\* The discovery header of the chip and its parameter headers 0, 1, ...
ChipHeader == ChipSfdpData(chip, 0, 8)
ChipParamHeader(i) == ChipSfdpData(chip, 8 + 8 * i, 8)
ChipParamHeaders == 0..ChipHeader[6]
\* The reads of the discovery header and of the parameter headers, and the
\* reads of the tables, among the transactions of the step.
HeaderReads ==
    {i \in IssuedAt(QSPIF_INST_RSFDP) : bus[i].addr \in {0} \cup {8 + 8 * k : k \in ChipParamHeaders}}
TableReads == IssuedAt(QSPIF_INST_RSFDP) \ HeaderReads
\* Signature "SFDP", byte 5 equal to 1, major version 1 in every parameter
\* header, and no header read that failed.
HeadersGood ==
    /\ <<ChipHeader[0], ChipHeader[1], ChipHeader[2], ChipHeader[3]>> = <<83, 70, 68, 80>>
    /\ ChipHeader[5] = 1
    /\ \A i \in ChipParamHeaders : ChipParamHeader(i)[2] = 1
    /\ \A i \in HeaderReads : bus[i].ok
\* The discovery of an init call of thread t has run up to the headers.
HeadersReached(t) ==
    /\ pc[t] \in {"init_exit", "hung"} /\ lv[t].op = "init"
    /\ HeaderReads # {}

\* C37: init goes on to the tables only if the discovery header has the
\* signature "SFDP" and byte 5 equal to 1, every parameter header has major
\* version 1 and every header read succeeded; otherwise it returns
\* parsing-failed without reading a table, and the device is not
\* initialized.
C37_HeadersChecked ==
    /\ \A t \in Threads :
          (HeadersReached(t) /\ ~HeadersGood) =>
              /\ InitRan(t, QSPIF_BD_ERROR_PARSING_FAILED)
              /\ TableReads = {}
              /\ ~dev._is_initialized
    /\ (last.op = "init" /\ last.ret = QSPIF_BD_ERROR_PARSING_FAILED) => ~dev._is_initialized

\* Init has returned parsing-failed on a chip whose second parameter header
\* has major version 2, with the device not initialized.
C37_Witness ==
    /\ ChipParamHeader(0)[2] = 1 /\ ChipParamHeader(1)[2] = 2
    /\ pc[1] = "idle" /\ last.op = "init" /\ last.ret = QSPIF_BD_ERROR_PARSING_FAILED
    /\ ~dev._is_initialized

\* Table address and length in bytes that parameter header i announces.
AnnouncedAddr(i) ==
    ChipParamHeader(i)[6] * 65536 + ChipParamHeader(i)[5] * 256 + ChipParamHeader(i)[4]
AnnouncedSize(i) == ChipParamHeader(i)[3] * 4
KindOf(i) == <<ChipParamHeader(i)[0], ChipParamHeader(i)[7]>>
\* A table read of the step at address a, of n bytes.
TableRead(a, n) == \E j \in TableReads : bus[j].addr = a /\ bus[j].len = n

\* C38 as stated: in a successful init the table of a parameter header of
\* kind {00h, FFh} is read as the Basic table with its length clamped to 64
\* bytes, the table of a header of kind {81h, FFh} is read as the Sector Map
\* at the announced address and with the announced length, and no table is
\* read for a header of another kind.
C38_TableKinds ==
    \A t \in Threads :
        InitRan(t, QSPIF_BD_ERROR_OK) =>
            \A i \in ChipParamHeaders :
                CASE KindOf(i) = <<0, 255>> ->
                         TableRead(AnnouncedAddr(i),
                                   IF AnnouncedSize(i) < 64 THEN AnnouncedSize(i) ELSE 64)
                  [] KindOf(i) = <<129, 255>> ->
                         TableRead(AnnouncedAddr(i), AnnouncedSize(i))
                  [] OTHER -> \A j \in TableReads : bus[j].addr # AnnouncedAddr(i)

\* The Sector Map of the chip, and whether init has read it.
ChipSectorMap == ChipSfdpData(chip, 128, 12)
SectorMapWasRead == \E j \in TableReads : bus[j].addr = 128 /\ bus[j].ok
MapAcceptable ==
    /\ ChipSectorMap[0] % 4 = 3 /\ ChipSectorMap[1] = 0
    /\ ChipSectorMap[2] + 1 <= QSPIF_MAX_REGIONS

\* C39 as stated: an init that has read the Sector Map goes on only when
\* the first word has (b0 & 3) = 3 and b1 = 0 and the region count is within
\* the cap; for every other first word it returns parsing-failed and the
\* device is not initialized.
C39_SectorMapAccepted ==
    \A t \in Threads :
        (pc[t] = "init_exit" /\ SectorMapWasRead /\ ~MapAcceptable) =>
            lv[t].status = QSPIF_BD_ERROR_PARSING_FAILED /\ ~dev._is_initialized


(***************************************************************************)
(* Claims about the tear-down (C40)                                        *)
(***************************************************************************)
\* The last call to return was a deinit that sent the write-disable: the one
\* that dropped the reference count to zero.
TornDownLast == last.op = "deinit" /\ last.io
InRegistry(csel) == \E i \in DOMAIN registry.arr : registry.arr[i] = csel

\* C40: the deinit that dropped the reference count to zero, before it
\* takes its chip-select out of the registry, has sent the write-disable and
\* marked the device not initialized whether that succeeded or not, and
\* returns device-error exactly when it failed; once it has returned, the
\* device is not initialized and its chip-select is not in the registry; the
\* init that follows it takes the count to 1 and runs the discovery (it does
\* not return through the nested-init exit, which is ok without a
\* transaction), and it ends with the device initialized exactly when it
\* returns ok, the tables having been read again.
C40_TearDownDespiteFailure ==
    /\ \A t \in Threads :
           pc[t] = "deinit_remove"
               => /\ ~dev._is_initialized
                  /\ dev._init_ref_count = 0
                  /\ Len(bus) = 1 /\ bus[1].inst = QSPIF_WRDI
                  /\ lv[t].status = IF bus[1].ok THEN QSPIF_BD_ERROR_OK
                                    ELSE QSPIF_BD_ERROR_DEVICE_ERROR
    /\ (AllIdle /\ TornDownLast)
           => /\ ~dev._is_initialized
              /\ dev._init_ref_count = 0
              /\ ~InRegistry(dev._csel)
              /\ last.ret \in {QSPIF_BD_ERROR_OK, QSPIF_BD_ERROR_DEVICE_ERROR}
    /\ \A t \in Threads :
           (pc[t] = "init_exit" /\ TornDownLast)
               => /\ dev._init_ref_count = 1
                  /\ bus = <<>> => lv[t].status = QSPIF_BD_ERROR_DEVICE_ERROR
                  /\ dev._is_initialized <=> lv[t].status = QSPIF_BD_ERROR_OK
                  /\ lv[t].status = QSPIF_BD_ERROR_OK
                         => Issued(QSPIF_INST_RSFDP) /\ Issued(QSPIF_INST_RDID)

\* An init returns ok with the device initialized after a deinit whose
\* write-disable failed.
C40_Witness ==
    \E t \in Threads :
        /\ pc[t] = "init_exit" /\ TornDownLast /\ last.ret = QSPIF_BD_ERROR_DEVICE_ERROR
        /\ lv[t].status = QSPIF_BD_ERROR_OK /\ dev._is_initialized
        /\ Issued(QSPIF_INST_RSFDP) /\ ~InRegistry(dev._csel)

====
